---- MODULE Spec2Model ----
(***************************************************************************)
(* General Rate Model unit operation of CADET (GeneralRateModel.cpp):      *)
(* discretization descriptor and DOF layout, inlet mapping and            *)
(* off-diagonal coupling blocks at section transitions, and the banded     *)
(* particle Jacobian written by residualParticle; radial discretization,   *)
(* parameter updates, the time derivative Jacobian, and the consistent     *)
(* initialization of the model system                                      *)
(* (ModelSystemImpl-InitialConditions.cpp).                                *)
(*                                                                         *)
(* C++ arrays are modelled as functions over 0..n-1 so that the indices    *)
(* of the source are kept.  Real-valued quantities are exact rationals     *)
(* (records [n, d] in lowest terms).                                       *)
(***************************************************************************)
EXTENDS Integers, Sequences, FiniteSets, TLC

\* ---------------------------------------------------------------- bounds
MaxComp == 2
MaxCol == 2
MaxParType == 2
MaxParCell == 3
MaxBound == 2
MaxVelocity == 2
MaxSection == 1
MaxSensParams == 1
MaxUnits == 3
MaxUnitComp == 2
MaxInletPorts == 2
MaxSensDirs == 2
MaxTasks == 5

\* ------------------------------------------------------------- arithmetic
Max(a, b) == IF a > b THEN a ELSE b

Abs(x) == IF x < 0 THEN -x ELSE x

RECURSIVE gcd(_, _)
gcd(a, b) == IF b = 0 THEN a ELSE gcd(b, a % b)

\* the rational n/d (d # 0) in lowest terms with positive denominator
Rat(n, d) ==
    LET s == IF d < 0 THEN -1 ELSE 1
        g == gcd(Abs(n), Abs(d))
    IN  [n |-> (s * n) \div g, d |-> (s * d) \div g]

RatAdd(a, b) == Rat(a.n * b.d + b.n * a.d, a.d * b.d)

RatSub(a, b) == Rat(a.n * b.d - b.n * a.d, a.d * b.d)

RatMul(a, b) == Rat(a.n * b.n, a.d * b.d)

RatDiv(a, b) == Rat(a.n * b.d, a.d * b.n)

RatNeg(a) == [n |-> -a.n, d |-> a.d]

RatInt(i) == [n |-> i, d |-> 1]

\* std::accumulate(a + lo, a + hi, 0u)
RECURSIVE accumulate(_, _, _)
accumulate(a, lo, hi) == IF lo >= hi THEN 0 ELSE a[lo] + accumulate(a, lo + 1, hi)

\* ---------------------------------------------------------- descriptor
nParTypeOfShellCounts(in) == IF in.hasNPARTYPE THEN in.NPARTYPE ELSE Len(in.NPAR)

\* Number of particle types: NPARTYPE if given, otherwise inferred
nParTypeOf(in) ==
    IF in.hasNPARTYPE THEN in.NPARTYPE
    ELSE Max(Len(in.NBOUND) \div in.NCOMP, Len(in.NPAR))

\* nTotalParCells: the number of shells of all particle types, NPAR being
\* multiplexed from its first entry or taken per type
nTotalParCellsOf(in) ==
    LET RECURSIVE total(_)
        total(t) == IF t = 0 THEN 0
                    ELSE total(t - 1) + (IF Len(in.NPAR) < nParTypeOf(in) THEN in.NPAR[1]
                                         ELSE in.NPAR[t])
    IN  total(nParTypeOf(in))

MultiplexAbsent == -1

\* _singleBinding: ADSORPTION_MODEL_MULTIPLEX if given, otherwise inferred
singleBindingOf(in) ==
    IF in.plugins.adsorptionMultiplex # MultiplexAbsent THEN in.plugins.adsorptionMultiplex = 1
    ELSE in.plugins.nAdsorptionModels = 1

\* _singleDynReaction as set when REACTION_MODEL_PARTICLES is present
singleDynReactionOf(in) ==
    IF in.plugins.reactionMultiplex # MultiplexAbsent THEN in.plugins.reactionMultiplex = 1
    ELSE in.plugins.nReactionModels = 1

\* The InvalidParameterException raised while reading NPAR, NBOUND,
\* PAR_DISC_TYPE, PAR_DISC_VECTOR, ADSORPTION_MODEL or
\* REACTION_MODEL_PARTICLES, or "none"
discretizationError(in) ==
    IF Len(in.NBOUND) < in.NCOMP THEN "NBOUND_too_few"
    ELSE IF Len(in.NPAR) > 1 /\ Len(in.NPAR) < nParTypeOf(in) THEN "NPAR_size"
    ELSE IF Len(in.NBOUND) > in.NCOMP /\ Len(in.NBOUND) < in.NCOMP * nParTypeOf(in)
         THEN "NBOUND_size"
    ELSE IF ~(Len(in.PAR_DISC_TYPE) = 1 /\ nParTypeOf(in) > 1)
              /\ Len(in.PAR_DISC_TYPE) < nParTypeOf(in)
         THEN "PAR_DISC_TYPE_too_few"
    ELSE IF in.hasParDiscVector
              /\ Len(in.PAR_DISC_VECTOR) < nTotalParCellsOf(in) + nParTypeOf(in)
         THEN "PAR_DISC_VECTOR_too_few"
    ELSE IF ~singleBindingOf(in) /\ in.plugins.nAdsorptionModels < nParTypeOf(in)
         THEN "ADSORPTION_MODEL_too_few"
    ELSE IF singleBindingOf(in) /\ in.plugins.nAdsorptionModels # 1
         THEN "ADSORPTION_MODEL_not_one"
    ELSE IF in.plugins.hasReactionParticles /\ ~singleDynReactionOf(in)
              /\ in.plugins.nReactionModels < nParTypeOf(in)
         THEN "REACTION_MODEL_PARTICLES_too_few"
    ELSE IF in.plugins.hasReactionParticles /\ singleDynReactionOf(in)
              /\ in.plugins.nReactionModels # 1
         THEN "REACTION_MODEL_PARTICLES_not_one"
    ELSE "none"

\* _parDiscType: PAR_DISC_TYPE multiplexed from its only entry or taken per
\* type, any name other than the two known ones meaning equidistant shells
parDiscTypeOf(in) ==
    [i \in 0..(nParTypeOf(in) - 1) |->
        LET pdt == IF Len(in.PAR_DISC_TYPE) = 1 THEN in.PAR_DISC_TYPE[1]
                   ELSE in.PAR_DISC_TYPE[i + 1]
        IN  IF pdt = "EQUIVOLUME_PAR" THEN "Equivolume"
            ELSE IF pdt = "USER_DEFINED_PAR" THEN "UserDefined"
            ELSE "Equidistant"]

\* _disc.nParCell: multiplexed from NPAR[0] or copied per type
nParCellOf(in) ==
    [t \in 0..(nParTypeOf(in) - 1) |->
        IF Len(in.NPAR) < nParTypeOf(in) THEN in.NPAR[1] ELSE in.NPAR[t + 1]]

\* _disc.nBound: multiplexed from the first NCOMP entries or copied
nBoundOf(in) ==
    [i \in 0..(in.NCOMP * nParTypeOf(in) - 1) |->
        IF Len(in.NBOUND) < in.NCOMP * nParTypeOf(in)
        THEN in.NBOUND[(i % in.NCOMP) + 1]
        ELSE in.NBOUND[i + 1]]

\* boundOffsetLoop reading the bound state counts of the first particle type only
RECURSIVE boundOffsetLoopFirstType(_, _, _, _)
boundOffsetLoopFirstType(nBound, nComp, j, i) ==
    IF i = 0 THEN 0
    ELSE boundOffsetLoopFirstType(nBound, nComp, j, i - 1) + nBound[i - 1]

\* ptrOffset[i] of particle type j
RECURSIVE boundOffsetLoop(_, _, _, _)
boundOffsetLoop(nBound, nComp, j, i) ==
    IF i = 0 THEN 0
    ELSE boundOffsetLoop(nBound, nComp, j, i - 1) + nBound[j * nComp + i - 1]

\* _disc.strideBound[j] for j < nParType
strideBoundLoop(nBound, nComp, j) ==
    boundOffsetLoop(nBound, nComp, j, nComp - 1) + nBound[j * nComp + nComp - 1]

\* _disc.nBoundBeforeType[j]
RECURSIVE nBoundBeforeTypeLoop(_, _, _)
nBoundBeforeTypeLoop(nBound, nComp, j) ==
    IF j = 0 THEN 0
    ELSE nBoundBeforeTypeLoop(nBound, nComp, j - 1) + strideBoundLoop(nBound, nComp, j - 1)

\* parTypeOffsetLoop counting the shells of a single axial cell
RECURSIVE parTypeOffsetLoopOneCell(_, _, _, _, _)
parTypeOffsetLoopOneCell(nComp, nCol, nParCell, strideBound, j) ==
    IF j = 0 THEN 0
    ELSE parTypeOffsetLoopOneCell(nComp, nCol, nParCell, strideBound, j - 1)
            + (nComp + strideBound[j - 1]) * nParCell[j - 1]

\* _disc.parTypeOffset[j]
RECURSIVE parTypeOffsetLoop(_, _, _, _, _)
parTypeOffsetLoop(nComp, nCol, nParCell, strideBound, j) ==
    IF j = 0 THEN 0
    ELSE parTypeOffsetLoop(nComp, nCol, nParCell, strideBound, j - 1)
            + (nComp + strideBound[j - 1]) * nParCell[j - 1] * nCol

\* _disc.nParCellsBeforeType[j]
RECURSIVE nParCellsBeforeTypeLoop(_, _)
nParCellsBeforeTypeLoop(nParCell, j) ==
    IF j = 0 THEN 0 ELSE nParCellsBeforeTypeLoop(nParCell, j - 1) + nParCell[j - 1]

\* The descriptor _disc after configureModelDiscretization, together with
\* _parDiscType and _parDiscVector
Discretization(in) ==
    LET nComp == in.NCOMP
        nParType == nParTypeOf(in)
        nParCell == nParCellOf(in)
        nBound == nBoundOf(in)
        nTotalBound == accumulate(nBound, 0, nComp * nParType)
        strideBound == [j \in 0..nParType |->
                          IF j = nParType THEN nTotalBound
                          ELSE strideBoundLoop(nBound, nComp, j)]
    IN  [nComp |-> nComp,
         nCol |-> in.NCOL,
         nParType |-> nParType,
         nParCell |-> nParCell,
         nBound |-> nBound,
         boundOffset |-> [i \in 0..(nComp * nParType - 1) |->
                            boundOffsetLoop(nBound, nComp, i \div nComp, i % nComp)],
         strideBound |-> strideBound,
         nBoundBeforeType |-> [j \in 0..(nParType - 1) |->
                                 nBoundBeforeTypeLoop(nBound, nComp, j)],
         parTypeOffset |-> [j \in 0..nParType |->
                              parTypeOffsetLoop(nComp, in.NCOL, nParCell, strideBound, j)],
         nParCellsBeforeType |-> [j \in 0..nParType |->
                                    nParCellsBeforeTypeLoop(nParCell, j)],
         parDiscType |-> parDiscTypeOf(in),
         parDiscVector |-> IF in.hasParDiscVector
                           THEN [i \in 0..(Len(in.PAR_DISC_VECTOR) - 1) |->
                                    in.PAR_DISC_VECTOR[i + 1]]
                           ELSE <<>>]

\* numDofs counting the flux DOFs of one particle type only
numDofsSingleType(d) ==
    d.nCol * (d.nComp * 2) + d.parTypeOffset[d.nParType] + d.nComp

numDofs(d) ==
    d.nCol * (d.nComp * (1 + d.nParType)) + d.parTypeOffset[d.nParType] + d.nComp

numPureDofs(d) ==
    d.nCol * (d.nComp * (1 + d.nParType)) + d.parTypeOffset[d.nParType]

\* ---------------------------------------------------- surface diffusion
\* Whether the check of particle type i reads a nonzero coefficient; a read
\* past the end of PAR_SURFDIFFUSION yields an arbitrary value
surfDiffCheckOutcomes(d, surfDiff, i) ==
    LET idx == {d.nBoundBeforeType[i] + j : j \in 0..(d.nBound[i] - 1)}
    IN  IF \E k \in idx : k \in DOMAIN surfDiff /\ surfDiff[k] # 0 THEN {TRUE}
        ELSE IF \E k \in idx : k \notin DOMAIN surfDiff THEN {TRUE, FALSE}
        ELSE {FALSE}

\* The values _hasSurfaceDiffusion can take after configureModelDiscretization
hasSurfaceDiffusionOutcomes(d, in) ==
    IF in.optimizeSurfDiffusion
    THEN IF in.hasSurfDiff
         THEN {h \in [0..(d.nParType - 1) -> BOOLEAN] :
                 \A i \in 0..(d.nParType - 1) : h[i] \in surfDiffCheckOutcomes(d, in.surfDiff, i)}
         ELSE {[i \in 0..(d.nParType - 1) |-> FALSE]}
    ELSE {[i \in 0..(d.nParType - 1) |-> TRUE]}

\* --------------------------------------------------------------- Indexer
\* Offsets and strides of the DOF layout: inlet, bulk, particles, fluxes
strideColCell(d) == d.nComp

strideColComp(d) == 1

strideParLiquid(d) == d.nComp

strideParBound(d, t) == d.strideBound[t]

strideParShell(d, t) == strideParLiquid(d) + strideParBound(d, t)

strideParBlock(d, t) == d.nParCell[t] * strideParShell(d, t)

offsetC(d) == d.nComp

offsetCpType(d, t) == d.nComp * d.nCol + offsetC(d) + d.parTypeOffset[t]

offsetCp(d, t, k) == offsetCpType(d, t) + strideParBlock(d, t) * k

offsetJf(d) == d.nComp * d.nCol + offsetC(d) + d.parTypeOffset[d.nParType]

offsetJfType(d, t) == offsetJf(d) + t * d.nCol * d.nComp

offsetBoundComp(d, t, c) == d.boundOffset[t * d.nComp + c]

\* ------------------------------------------------- particle Jacobian storage
\* Bandwidths of the Jacobian blocks of particle type j
lowerBandwidth(d, j) == d.nComp + d.strideBound[j]

upperBandwidth(d, hasSD, j) ==
    lowerBandwidth(d, j) + (IF hasSD[j] THEN d.strideBound[j] ELSE 0)

\* _jacP after resize: one zero band matrix per (type, axial cell); a band
\* matrix is kept as the set of its nonzero elements [row, idx, val], idx
\* being the diagonal (column - row)
allocJacP(d, hasSD) ==
    [blk \in 0..(d.nCol * d.nParType - 1) |->
        LET j == blk \div d.nCol
        IN  [rows |-> d.nParCell[j] * lowerBandwidth(d, j),
             lowerBandwidth |-> lowerBandwidth(d, j),
             upperBandwidth |-> upperBandwidth(d, hasSD, j),
             data |-> {}]]

\* ----------------------------------------------------------------- state
VARIABLES
    pc,                   \* "new", "discretized", "configured" or "failed"
    lastOp,               \* the operation that ran last and its outcome
    provider,             \* the parameters read by the configuration
    disc,                 \* _disc
    hasSurfaceDiffusion,  \* _hasSurfaceDiffusion
    par,                  \* physical parameters and particle geometry
    conv,                 \* flow state of the convection dispersion operator
    jacInlet,             \* _jacInlet
    offdiag,              \* _jacCF, _jacFC, _jacPF, _jacFP
    jacP,                 \* _jacP
    sys,                  \* the model system the unit operations belong to
    factorizeJacobian,    \* _factorizeJacobian
    run                   \* the residual or Jacobian product in progress

vars == <<pc, lastOp, provider, disc, hasSurfaceDiffusion, par, conv, jacInlet, offdiag, jacP,
          sys, factorizeJacobian, run>>

\* The variables of the unit operation
unitVars == <<pc, lastOp, provider, disc, hasSurfaceDiffusion, par, conv, jacInlet, offdiag, jacP,
              factorizeJacobian, run>>

\* A model system before consistent initialization is asked for
NoSystem == [pc |-> "idle"]

\* No residual and no Jacobian product in progress
NoRun == [pc |-> "idle"]

NoDisc == [nComp |-> 0, nCol |-> 0, nParType |-> 0]

Configured == pc \in {"discretized", "configured"}

\* State after construction (constructor of GeneralRateModel)
Init ==
    /\ pc = "new"
    /\ lastOp = [op |-> "construct"]
    /\ provider = <<>>
    /\ disc = NoDisc
    /\ hasSurfaceDiffusion = <<>>
    /\ par = <<>>
    /\ conv = [dir |-> 0, curVelocity |-> 0, colLength |-> 0]
    /\ jacInlet = <<>>
    /\ offdiag = [jacCF |-> <<>>, jacFC |-> <<>>, jacPF |-> <<>>, jacFP |-> <<>>]
    /\ jacP = <<>>
    /\ sys = NoSystem
    /\ factorizeJacobian = FALSE
    /\ run = NoRun

bindingDiscretizationLoopLastOnly(in, n) ==
    IF n = 0 THEN TRUE
    ELSE IF singleBindingOf(in) THEN 0 \notin in.plugins.bindingDiscFails
    ELSE (n - 1) \notin in.plugins.bindingDiscFails

\* bindingConfSuccess after the first n particle types
RECURSIVE bindingDiscretizationLoop(_, _)
bindingDiscretizationLoop(in, n) ==
    IF n = 0 THEN TRUE
    ELSE LET i == n - 1
             bindingConfSuccess == bindingDiscretizationLoop(in, i)
         IN  IF singleBindingOf(in) /\ i > 0 THEN bindingConfSuccess
             ELSE (i \notin in.plugins.bindingDiscFails) /\ bindingConfSuccess

\* reactionConfSuccess after the first n particle types, starting from the
\* outcome of the bulk reaction model
RECURSIVE reactionDiscretizationLoop(_, _, _)
reactionDiscretizationLoop(in, n, bulk) ==
    IF n = 0 THEN bulk
    ELSE LET i == n - 1
             reactionConfSuccess == reactionDiscretizationLoop(in, i, bulk)
         IN  IF singleDynReactionOf(in) /\ i > 0 THEN reactionConfSuccess
             ELSE (i \notin in.plugins.reactionDiscFails) /\ reactionConfSuccess

\* The value configureModelDiscretization returns
discretizationResult(in) ==
    LET transportSuccess == in.plugins.transportDiscOk
        bindingConfSuccess == bindingDiscretizationLoop(in, nParTypeOf(in))
        bulk == IF in.plugins.hasReactionBulk THEN in.plugins.bulkDiscOk ELSE TRUE
        reactionConfSuccess ==
            IF in.plugins.hasReactionParticles
            THEN reactionDiscretizationLoop(in, nParTypeOf(in), bulk) ELSE bulk
    IN  transportSuccess /\ bindingConfSuccess /\ reactionConfSuccess

\* configureModelDiscretization reading the parameters in: either an
\* InvalidParameterException leaves the unit unusable, or the descriptor,
\* the surface diffusion flags and the Jacobian storage are set up
ConfigureModelDiscretization(in) ==
    /\ pc = "new"
    /\ provider' = in
    /\ IF discretizationError(in) # "none"
       THEN /\ pc' = "failed"
            /\ lastOp' = [op |-> "configureModelDiscretization",
                          error |-> discretizationError(in)]
            /\ UNCHANGED <<disc, hasSurfaceDiffusion, jacP>>
       ELSE /\ pc' = "discretized"
            /\ lastOp' = [op |-> "configureModelDiscretization", error |-> "none",
                          result |-> discretizationResult(in)]
            /\ disc' = Discretization(in)
            /\ hasSurfaceDiffusion' \in hasSurfaceDiffusionOutcomes(Discretization(in), in)
            /\ jacP' = allocJacP(Discretization(in), hasSurfaceDiffusion')
    /\ UNCHANGED <<par, conv, jacInlet, offdiag, sys, factorizeJacobian, run>>

\* --------------------------------------------------- configuration inputs
\* Coefficient vectors PAR_SURFDIFFUSION of length n: all zero, all nonzero,
\* or nonzero only for the first or only for the last bound state
SurfDiffVectors(n) ==
    {[k \in 0..(n - 1) |-> 0], [k \in 0..(n - 1) |-> 1]}
        \cup {[k \in 0..(n - 1) |-> IF k = p THEN 1 ELSE 0] : p \in {0, n - 1} \cap 0..(n - 1)}

SurfDiffInputs(n) ==
    {[optimizeSurfDiffusion |-> FALSE, hasSurfDiff |-> FALSE, surfDiff |-> <<>>],
     [optimizeSurfDiffusion |-> TRUE, hasSurfDiff |-> FALSE, surfDiff |-> <<>>]}
        \cup {[optimizeSurfDiffusion |-> TRUE, hasSurfDiff |-> TRUE, surfDiff |-> v] :
                v \in SurfDiffVectors(n)}

\* NPAR: one shell count for all types, or one per type counting up from 1
\* or down from MaxParCell
NparInputs ==
    {<<c>> : c \in 1..MaxParCell}
        \cup UNION {{[i \in 1..n |-> ((i - 1) % MaxParCell) + 1],
                      [i \in 1..n |-> ((MaxParCell * n - i) % MaxParCell) + 1]} :
                    n \in 2..MaxParType}

\* NBOUND: every layout A of one particle type, continued for the further
\* types with the same counts (s = 0) or with counts shifted by the type
\* (s = 1); and vectors one entry shorter or longer than a layout of one type
NboundInputs(nComp) ==
    {[i \in 1..(nComp * k) |->
         (A[((i - 1) % nComp) + 1] + ((i - 1) \div nComp) * s) % (MaxBound + 1)] :
        k \in 1..MaxParType, A \in [1..nComp -> 0..MaxBound], s \in 0..1}
      \cup {[i \in 1..n |-> b] : n \in {nComp - 1, nComp + 1} \ {0}, b \in 0..MaxBound}

ParTypeInputs ==
    {[hasNPARTYPE |-> FALSE, NPARTYPE |-> 0]}
        \cup {[hasNPARTYPE |-> TRUE, NPARTYPE |-> n] : n \in 1..MaxParType}

\* One binding model for all particle types, no reaction models, every
\* sub-configuration succeeding
OneBindingModel ==
    [transportDiscOk |-> TRUE,
     nAdsorptionModels |-> 1, adsorptionMultiplex |-> MultiplexAbsent,
     bindingDiscFails |-> {}, bindingNoConf |-> {},
     hasReactionBulk |-> FALSE, bulkDiscOk |-> TRUE, bulkNoConf |-> FALSE,
     hasReactionParticles |-> FALSE, nReactionModels |-> 0,
     reactionMultiplex |-> MultiplexAbsent, reactionDiscFails |-> {}, reactionNoConf |-> {}]

DiscInput(nComp, nCol, pt, npar, nbound, sd) ==
    [NCOMP |-> nComp, NCOL |-> nCol,
     hasNPARTYPE |-> pt.hasNPARTYPE, NPARTYPE |-> pt.NPARTYPE,
     NPAR |-> npar, NBOUND |-> nbound,
     PAR_DISC_TYPE |-> <<"EQUIDISTANT_PAR">>,
     hasParDiscVector |-> FALSE, PAR_DISC_VECTOR |-> <<>>,
     plugins |-> OneBindingModel,
     optimizeSurfDiffusion |-> sd.optimizeSurfDiffusion,
     hasSurfDiff |-> sd.hasSurfDiff, surfDiff |-> sd.surfDiff]

\* The total number of bound states the inputs lead to (0 if they are rejected)
nTotalBoundOf(nComp, pt, npar, nbound) ==
    LET in == DiscInput(nComp, 1, pt, npar, nbound, [optimizeSurfDiffusion |-> FALSE,
                                                     hasSurfDiff |-> FALSE, surfDiff |-> <<>>])
    IN  IF discretizationError(in) # "none" THEN 0
        ELSE accumulate(nBoundOf(in), 0, nComp * nParTypeOf(in))

\* Configuration of the discretization from any parameter set
ConfigureAny ==
    /\ pc = "new"
    /\ \E nComp \in 1..MaxComp, nCol \in {1, MaxCol}, pt \in ParTypeInputs, npar \in NparInputs :
          \E nbound \in NboundInputs(nComp) :
            \E sd \in SurfDiffInputs(nTotalBoundOf(nComp, pt, npar, nbound)) :
                ConfigureModelDiscretization(DiscInput(nComp, nCol, pt, npar, nbound, sd))

\* The sub-configurations of a unit with particle types 0..last
SubConfigurations == {"transport", "binding0", "bindingLast", "bulk", "reaction0", "reactionLast"}

\* No, one or two of them
FewOf(S) == {{}} \cup {{a, b} : a \in S, b \in S}

\* The particle types among 0 and last that a set of sub-configurations names
TypesNamed(F, first, final, last) ==
    (IF first \in F THEN {0} ELSE {}) \cup (IF final \in F THEN {last} ELSE {})

\* Binding and reaction models given once for all types or once per type,
\* with the sub-configurations F failing in configureModelDiscretization and
\* the models N requiring no configuration
PluginInput(nParType, singleBinding, hasBulk, particles, F, N) ==
    [transportDiscOk |-> "transport" \notin F,
     nAdsorptionModels |-> IF singleBinding THEN 1 ELSE nParType,
     adsorptionMultiplex |-> IF singleBinding THEN MultiplexAbsent ELSE 0,
     bindingDiscFails |-> TypesNamed(F, "binding0", "bindingLast", nParType - 1),
     bindingNoConf |-> TypesNamed(N, "binding0", "bindingLast", nParType - 1),
     hasReactionBulk |-> hasBulk, bulkDiscOk |-> "bulk" \notin F, bulkNoConf |-> "bulk" \in N,
     hasReactionParticles |-> particles # "none",
     nReactionModels |-> IF particles = "none" THEN 0
                         ELSE IF particles = "single" THEN 1 ELSE nParType,
     reactionMultiplex |-> IF particles = "each" THEN 0 ELSE MultiplexAbsent,
     reactionDiscFails |-> TypesNamed(F, "reaction0", "reactionLast", nParType - 1),
     reactionNoConf |-> TypesNamed(N, "reaction0", "reactionLast", nParType - 1)]

PluginDiscInputs ==
    {[DiscInput(1, 1, [hasNPARTYPE |-> TRUE, NPARTYPE |-> nParType], <<1>>, <<1>>,
                [optimizeSurfDiffusion |-> FALSE, hasSurfDiff |-> FALSE, surfDiff |-> <<>>])
        EXCEPT !.plugins = PluginInput(nParType, x[1][1], x[1][2], x[1][3], x[2][1], x[2][2])] :
        nParType \in {1, MaxParType},
        x \in (BOOLEAN \X BOOLEAN \X {"none", "single", "each"})
                  \X ((FewOf(SubConfigurations) \X {{}})
                         \cup ({{}} \X {{a} : a \in SubConfigurations \ {"transport"}}))}

ConfigurePlugins ==
    /\ pc = "new"
    /\ \E in \in PluginDiscInputs : ConfigureModelDiscretization(in)

\* NPAR, NBOUND and NPARTYPE of every size from too short to one type more
\* than MaxParType
SizeInputs ==
    UNION {{DiscInput(nComp, nCol, pt,
                      [i \in 1..nNpar |-> ((i - 1) % MaxParCell) + 1],
                      [i \in 1..nNbound |-> i % (MaxBound + 1)],
                      [optimizeSurfDiffusion |-> FALSE, hasSurfDiff |-> FALSE, surfDiff |-> <<>>]) :
               nNbound \in (nComp - 1)..(nComp * (MaxParType + 1))} :
              nComp \in {1, MaxComp}, nCol \in {1, MaxCol}, nNpar \in 1..(MaxParType + 1),
              pt \in ParTypeInputs \cup {[hasNPARTYPE |-> TRUE, NPARTYPE |-> MaxParType + 1]}}

ConfigureSizes ==
    /\ pc = "new"
    /\ \E in \in SizeInputs : ConfigureModelDiscretization(in)

\* ------------------------------------------------------------- geometry
Half == Rat(1, 2)

RatCube(a) == RatMul(a, RatMul(a, a))

RatSqr(a) == RatMul(a, a)

\* setEquidistantRadialDisc: the geometry of shell cell of a particle type
\* with radius R, core radius Rc and n shells
equidistantShell(R, Rc, n, cell) ==
    LET dr == RatDiv(RatSub(R, Rc), RatInt(n))
        r_out == RatSub(R, RatMul(RatInt(cell), dr))
        r_in == RatSub(R, RatMul(RatInt(cell + 1), dr))
        vol == RatSub(RatCube(r_out), RatCube(r_in))
    IN  [cellSize |-> dr,
         centerRadius |-> RatSub(R, RatMul(RatAdd(Half, RatInt(cell)), dr)),
         outerSurfAreaPerVolume |-> RatDiv(RatMul(RatInt(3), RatSqr(r_out)), vol),
         innerSurfAreaPerVolume |-> RatDiv(RatMul(RatInt(3), RatSqr(r_in)), vol)]

\* The particle type of the global shell index i
typeOfShell(d, i) == CHOOSE t \in 0..(d.nParType - 1) :
                        d.nParCellsBeforeType[t] <= i /\ i < d.nParCellsBeforeType[t + 1]

\* A real number of the form q1 * cbrt(c1) + ... + qk * cbrt(ck) is kept as
\* the set of its terms [coef, cube] with distinct cubes and nonzero
\* coefficients; a rational q is the single term q * cbrt(1)
SurdOf(q) == IF q.n = 0 THEN {} ELSE {[coef |-> q, cube |-> RatInt(1)]}

\* pow(c, 1.0 / 3.0) for a rational c >= 0
SurdRoot(c) == IF c.n = 0 THEN {} ELSE {[coef |-> RatInt(1), cube |-> c]}

SurdCoef(a, c) == IF \E x \in a : x.cube = c THEN (CHOOSE x \in a : x.cube = c).coef
                  ELSE RatInt(0)

SurdAdd(a, b) ==
    {x \in {[coef |-> RatAdd(SurdCoef(a, c), SurdCoef(b, c)), cube |-> c] :
                c \in {y.cube : y \in a \cup b}} : x.coef.n # 0}

SurdScale(q, a) == IF q.n = 0 THEN {} ELSE {[coef |-> RatMul(q, x.coef), cube |-> x.cube] : x \in a}

SurdSub(a, b) == SurdAdd(a, SurdScale(RatInt(-1), b))

\* sqr(r) for a radius r of at most one term
SurdSqr(a) == {[coef |-> RatSqr(x.coef), cube |-> RatSqr(x.cube)] : x \in a}

\* setEquivolumeRadialDisc: the geometry of shell cell of a particle type with
\* radius R, core radius Rc and n shells of equal volume.  pow(r_out, 3.0) of
\* a radius obtained as a cube root is the number the root was taken of.
equivolumeShell(R, Rc, n, cell) ==
    LET volumePerShell == RatDiv(RatSub(RatCube(R), RatCube(Rc)), RatInt(n))
        RECURSIVE outCube(_)
        outCube(k) == IF k = 0 THEN RatCube(R) ELSE RatSub(outCube(k - 1), volumePerShell)
        r_out == IF cell = 0 THEN SurdOf(R) ELSE SurdRoot(outCube(cell))
        r_in == IF cell # n - 1 THEN SurdRoot(RatSub(outCube(cell), volumePerShell))
                ELSE SurdOf(Rc)
    IN  [cellSize |-> SurdSub(r_out, r_in),
         centerRadius |-> SurdScale(Half, SurdAdd(r_out, r_in)),
         outerSurfAreaPerVolume |->
             SurdScale(RatDiv(RatInt(3), volumePerShell), SurdSqr(r_out)),
         innerSurfAreaPerVolume |->
             SurdScale(RatDiv(RatInt(3), volumePerShell), SurdSqr(r_in))]

RatLess(a, b) == a.n * b.d < b.n * a.d

\* std::sort with std::greater of the sequence seq
RECURSIVE sortDescending(_)
sortDescending(seq) ==
    IF Len(seq) <= 1 THEN seq
    ELSE LET rest == sortDescending(Tail(seq))
             before == SelectSeq(rest, LAMBDA x : ~RatLess(x, Head(seq)))
             after == SelectSeq(rest, LAMBDA x : RatLess(x, Head(seq)))
         IN  before \o <<Head(seq)>> \o after

\* orderedInterfaces of setUserdefinedRadialDisc for particle type parType:
\* the nParCell + 1 entries of PAR_DISC_VECTOR sorted, the ends forced to 1
\* and 0, and the outer interface of every shell mapped to [Rc, R]
orderedInterfaces(d, R, Rc, parType) ==
    LET n == d.nParCell[parType]
        first == d.nParCellsBeforeType[parType] + parType
        sorted == sortDescending([k \in 1..(n + 1) |-> d.parDiscVector[first + k - 1]])
        forced == [k \in 0..n |-> IF k = 0 THEN RatInt(1)
                                  ELSE IF k = n THEN RatInt(0) ELSE sorted[k + 1]]
    IN  [k \in 0..n |-> IF k < n THEN RatAdd(RatMul(forced[k], RatSub(R, Rc)), Rc)
                        ELSE forced[k]]

\* setUserdefinedRadialDisc: the geometry of shell cell of particle type parType
userdefinedShell(d, R, Rc, parType, cell) ==
    LET o == orderedInterfaces(d, R, Rc, parType)
        vol == RatSub(RatCube(o[cell]), RatCube(o[cell + 1]))
    IN  [cellSize |-> RatSub(o[cell], o[cell + 1]),
         centerRadius |-> RatMul(RatAdd(o[cell], o[cell + 1]), Half),
         outerSurfAreaPerVolume |-> RatDiv(RatMul(RatInt(3), RatSqr(o[cell])), vol),
         innerSurfAreaPerVolume |-> RatDiv(RatMul(RatInt(3), RatSqr(o[cell + 1])), vol)]

\* updateRadialDisc: the four geometry arrays, indexed by the global shell
\* index, every particle type in its discretization mode
updateRadialDisc(d, parRadius, parCoreRadius) ==
    [i \in 0..(d.nParCellsBeforeType[d.nParType] - 1) |->
        LET t == typeOfShell(d, i)
            cell == i - d.nParCellsBeforeType[t]
        IN  IF d.parDiscType[t] = "Equivolume"
            THEN equivolumeShell(parRadius[t], parCoreRadius[t], d.nParCell[t], cell)
            ELSE IF d.parDiscType[t] = "UserDefined"
            THEN userdefinedShell(d, parRadius[t], parCoreRadius[t], t, cell)
            ELSE equidistantShell(parRadius[t], parCoreRadius[t], d.nParCell[t], cell)]

\* ----------------------------------------------------------- parameters
\* Whether a parameter array with n entries per section holds several sections
isSectionDependent(arr, n) == Cardinality(DOMAIN arr) > n

\* getSectionDependentSlice: offset of the entries of section secIdx
sectionOffset(arr, n, secIdx) == IF isSectionDependent(arr, n) THEN secIdx * n ELSE 0

\* _parSurfDiffusion after configure: PAR_SURFDIFFUSION given for every bound
\* state, or zeros if the field does not exist
parSurfDiffusionOf(d, pin) ==
    IF pin.hasSurfDiff
    THEN [k \in DOMAIN pin.surfDiff |-> RatInt(pin.surfDiff[k])]
    ELSE [k \in 0..(d.strideBound[d.nParType] - 1) |-> RatInt(0)]

\* readAndRegisterMultiplexTypeParam: a field with one value is taken for
\* every particle type, any other field is taken as it is
multiplexTypeParam(d, values) ==
    IF Cardinality(DOMAIN values) = 1
    THEN [t \in 0..(d.nParType - 1) |-> values[0]]
    ELSE values

\* _parRadius and _parCoreRadius as configure reads them, the core radius
\* being 0 if PAR_CORERADIUS does not exist
parRadiusRead(d, pin) == multiplexTypeParam(d, pin.parRadius)

parCoreRadiusRead(d, pin) ==
    IF pin.hasCoreRadius THEN multiplexTypeParam(d, pin.parCoreRadius)
    ELSE [t \in 0..(d.nParType - 1) |-> RatInt(0)]

\* The tolerance 1e-10 of the volume fraction check, counted in the steps of
\* 5e-11 by which a volume fraction read deviates from a multiple of 1/4
VolFracTolerance == 2

\* volFracSum of axial cell i: the exact sum of the multiples of 1/4 and the
\* number of steps the sum deviates from it
volFracSum(d, vf, dev, i) ==
    LET RECURSIVE cellSum(_)
        cellSum(t) == IF t = d.nParType THEN RatInt(0)
                      ELSE RatAdd(vf[i * d.nParType + t], cellSum(t + 1))
        RECURSIVE cellDev(_)
        cellDev(t) == IF t = d.nParType THEN 0 ELSE dev[i * d.nParType + t] + cellDev(t + 1)
    IN  [sum |-> cellSum(0), dev |-> cellDev(0)]

\* The check with a deviation of exactly the tolerance rejected as well
volFracSumDiffersAtTolerance(d, vf, dev, i) ==
    LET s == volFracSum(d, vf, dev, i)
    IN  s.sum # RatInt(1) \/ Abs(s.dev) >= VolFracTolerance

\* std::abs(1.0 - volFracSum) > 1e-10 for axial cell i: a sum of multiples of
\* 1/4 other than 1 is off by at least 1/4, which no deviation of a few steps
\* makes up for
volFracSumDiffers(d, vf, dev, i) ==
    LET s == volFracSum(d, vf, dev, i)
    IN  s.sum # RatInt(1) \/ Abs(s.dev) > VolFracTolerance

\* _parTypeVolFrac as configure holds it when the sizes are checked: a field
\* of nParType entries expanded to all axial cells, a missing field replaced
\* by nCol entries 1.0, any other field as it was read
parTypeVolFracRead(d, has, vf, one) ==
    IF ~has THEN [i \in 0..(d.nCol - 1) |-> one]
    ELSE IF Len(vf) = d.nParType
         THEN [i \in 0..(d.nCol * d.nParType - 1) |-> vf[(i % d.nParType) + 1]]
    ELSE [i \in 0..(Len(vf) - 1) |-> vf[i + 1]]

\* The InvalidParameterException raised by configure for PAR_TYPE_VOLFRAC,
\* a field sized per particle type or PAR_SURFDIFFUSION, or "none"
configureError(d, pin) ==
    LET vf == parTypeVolFracRead(d, pin.hasVolFrac, pin.volFrac, RatInt(1))
        dev == parTypeVolFracRead(d, pin.hasVolFrac, pin.volFracDev, 0)
    IN  IF d.nParType > 1 /\ ~pin.hasVolFrac THEN "PAR_TYPE_VOLFRAC_missing"
        ELSE IF d.nParType # Cardinality(DOMAIN parRadiusRead(d, pin)) THEN "PAR_RADIUS_size"
        ELSE IF d.nParType * d.nCol # Cardinality(DOMAIN vf) THEN "PAR_TYPE_VOLFRAC_size"
        ELSE IF d.nParType # Cardinality(DOMAIN parCoreRadiusRead(d, pin))
             THEN "PAR_CORERADIUS_size"
        ELSE IF \E i \in 0..(d.nCol - 1) : volFracSumDiffers(d, vf, dev, i)
             THEN "PAR_TYPE_VOLFRAC_sum"
        ELSE IF Cardinality(DOMAIN parSurfDiffusionOf(d, pin)) < d.strideBound[d.nParType]
                   \/ (d.strideBound[d.nParType] > 0
                         /\ Cardinality(DOMAIN parSurfDiffusionOf(d, pin))
                                % d.strideBound[d.nParType] # 0)
             THEN "PAR_SURFDIFFUSION_size"
        ELSE "none"

\* bindingConfSuccess of configure after the first n particle types
RECURSIVE bindingConfigureLoop(_, _, _)
bindingConfigureLoop(in, pin, n) ==
    IF n = 0 THEN TRUE
    ELSE LET type == n - 1
             bindingConfSuccess == bindingConfigureLoop(in, pin, type)
         IN  IF type \in in.plugins.bindingNoConf THEN bindingConfSuccess
             ELSE (type \notin pin.plugins.bindingConfFails) /\ bindingConfSuccess

\* dynReactionConfSuccess of configure after the first n particle types
RECURSIVE reactionConfigureLoop(_, _, _, _)
reactionConfigureLoop(in, pin, n, bulk) ==
    IF n = 0 THEN bulk
    ELSE LET type == n - 1
             dynReactionConfSuccess == reactionConfigureLoop(in, pin, type, bulk)
         IN  IF ~in.plugins.hasReactionParticles \/ type \in in.plugins.reactionNoConf
             THEN dynReactionConfSuccess
             ELSE (type \notin pin.plugins.reactionConfFails) /\ dynReactionConfSuccess

\* The values configure can return; _singleDynReaction is only assigned when
\* REACTION_MODEL_PARTICLES is present and is read here in any case
configureResults(d, in, pin) ==
    LET transportSuccess == pin.plugins.transportConfOk
        bindingConfSuccess ==
            IF singleBindingOf(in)
            THEN IF 0 \notin in.plugins.bindingNoConf
                 THEN 0 \notin pin.plugins.bindingConfFails ELSE TRUE
            ELSE bindingConfigureLoop(in, pin, d.nParType)
        bulk == IF in.plugins.hasReactionBulk /\ ~in.plugins.bulkNoConf
                THEN pin.plugins.bulkConfOk ELSE TRUE
        dynReactionConfSuccess(single) ==
            IF single
            THEN IF in.plugins.hasReactionParticles /\ 0 \notin in.plugins.reactionNoConf
                 THEN (0 \notin pin.plugins.reactionConfFails) /\ bulk ELSE bulk
            ELSE reactionConfigureLoop(in, pin, d.nParType, bulk)
    IN  {transportSuccess /\ bindingConfSuccess /\ dynReactionConfSuccess(single) :
            single \in IF in.plugins.hasReactionParticles THEN {singleDynReactionOf(in)}
                       ELSE BOOLEAN}

\* _parTypeVolFrac after configure: expanded to all axial cells
parTypeVolFracOf(d, pin) == parTypeVolFracRead(d, pin.hasVolFrac, pin.volFrac, RatInt(1))

\* The parameters and geometry after a successful configure
Parameters(d, pin) ==
    [colPorosity |-> pin.colPorosity,
     parRadius |-> parRadiusRead(d, pin),
     singleParRadius |-> Cardinality(DOMAIN pin.parRadius) = 1,
     parCoreRadius |-> parCoreRadiusRead(d, pin),
     singleParCoreRadius |-> ~pin.hasCoreRadius \/ Cardinality(DOMAIN pin.parCoreRadius) = 1,
     parPorosity |-> pin.parPorosity,
     parTypeVolFrac |-> parTypeVolFracOf(d, pin),
     parTypeVolFracDev |-> parTypeVolFracRead(d, pin.hasVolFrac, pin.volFracDev, 0),
     axiallyConstantParTypeVolFrac |-> pin.hasVolFrac /\ Len(pin.volFrac) = d.nParType,
     filmDiffusion |-> pin.filmDiffusion,
     parDiffusion |-> pin.parDiffusion,
     parSurfDiffusion |-> parSurfDiffusionOf(d, pin),
     poreAccessFactor |-> pin.poreAccessFactor,
     qsReaction |-> pin.qsReaction,
     parCoreRadiusRegistered |-> pin.hasCoreRadius,
     sensParams |-> {},
     geometry |-> updateRadialDisc(d, parRadiusRead(d, pin), parCoreRadiusRead(d, pin))]

\* configure reading the parameters pin
Configure(pin) ==
    /\ pc = "discretized"
    /\ IF configureError(disc, pin) # "none"
       THEN /\ pc' = "failed"
            /\ lastOp' = [op |-> "configure", error |-> configureError(disc, pin), pin |-> pin]
            /\ UNCHANGED <<par, conv>>
       ELSE /\ pc' = "configured"
            /\ \E result \in configureResults(disc, provider, pin) :
                  lastOp' = [op |-> "configure", error |-> "none", pin |-> pin,
                             result |-> result]
            /\ par' = Parameters(disc, pin)
            /\ conv' = [conv EXCEPT !.colLength = pin.colLength]
    /\ UNCHANGED <<provider, disc, hasSurfaceDiffusion, jacInlet, offdiag, jacP, sys, factorizeJacobian, run>>

\* ------------------------------------------------ off-diagonal Jacobians
\* kf_FV[comp] of particle type `type` in section secIdx
kf_FV(d, p, secIdx, type, comp) ==
    LET n == d.nComp * d.nParType
        filmDiff == p.filmDiffusion[sectionOffset(p.filmDiffusion, n, secIdx) + type * d.nComp + comp]
        parDiff == p.parDiffusion[sectionOffset(p.parDiffusion, n, secIdx) + type * d.nComp + comp]
        absOuterShellHalfRadius == RatMul(Half, p.geometry[d.nParCellsBeforeType[type]].cellSize)
    IN  RatDiv(RatInt(1),
               RatAdd(RatDiv(RatDiv(RatDiv(absOuterShellHalfRadius, p.parPorosity[type]),
                                    p.poreAccessFactor[type * d.nComp + comp]), parDiff),
                      RatDiv(RatInt(1), filmDiff)))

\* jacPF_val of particle type `type`
jacPF_val(d, p, type) ==
    RatDiv(RatNeg(p.geometry[d.nParCellsBeforeType[type]].outerSurfAreaPerVolume),
           p.parPorosity[type])

\* residualFlux, J_{p,f} block: the factor of flux DOF (type, pblk, comp) added
\* to the residual of component comp in the outer shell of block (type, pblk)
residualFluxPF(d, p, type, pblk, comp) ==
    RatDiv(jacPF_val(d, p, type), p.poreAccessFactor[type * d.nComp + comp])

\* The element added to _jacPF[type * nCol + pblk] for component comp
jacPFEntry(d, p, type, pblk, comp) ==
    [row |-> comp,
     col |-> type * d.nCol * d.nComp + pblk * strideColCell(d) + comp * strideColComp(d),
     val |-> RatDiv(jacPF_val(d, p, type), p.poreAccessFactor[comp])]

\* The four blocks after assembleOffdiagJac(t, secIdx); a sparse matrix is the
\* sequence of the elements added to it
assembleOffdiagJac(d, p, secIdx) ==
    LET nEq == d.nCol * d.nComp
        invBetaC == RatSub(RatDiv(RatInt(1), p.colPorosity), RatInt(1))
        jacCF_val(type) == RatMul(invBetaC, RatDiv(RatInt(3), p.parRadius[type]))
    IN  [jacCF |-> [i \in 1..(d.nParType * nEq) |->
                      LET type == (i - 1) \div nEq
                          eq == (i - 1) % nEq
                      IN  [row |-> eq, col |-> eq + type * nEq,
                           val |-> RatMul(jacCF_val(type),
                                          p.parTypeVolFrac[type + (eq \div d.nComp) * d.nParType])]],
         jacFC |-> [i \in 1..(d.nParType * nEq) |->
                      LET type == (i - 1) \div nEq
                          eq == (i - 1) % nEq
                      IN  [row |-> eq + type * nEq, col |-> eq,
                           val |-> RatNeg(kf_FV(d, p, secIdx, type, eq % d.nComp))]],
         jacPF |-> [blk \in 0..(d.nCol * d.nParType - 1) |->
                      [i \in 1..d.nComp |->
                          jacPFEntry(d, p, blk \div d.nCol, blk % d.nCol, i - 1)]],
         jacFP |-> [blk \in 0..(d.nCol * d.nParType - 1) |->
                      [i \in 1..d.nComp |->
                          [row |-> (blk \div d.nCol) * nEq + (blk % d.nCol) * strideColCell(d)
                                      + (i - 1) * strideColComp(d),
                           col |-> i - 1,
                           val |-> kf_FV(d, p, secIdx, blk \div d.nCol, i - 1)]]]]

\* ------------------------------------------------------ section transition
\* _jacInlet rebuilt for velocity u and column length L, with the first cell
\* used for backward flow as well
inletMappingFirstCell(d, u, L) ==
    [i \in 1..d.nComp |->
        [row |-> (i - 1) * strideColComp(d), col |-> i - 1,
         val |-> IF u >= 0 THEN RatNeg(RatDiv(RatInt(u), RatDiv(RatInt(L), RatInt(d.nCol))))
                 ELSE RatDiv(RatInt(u), RatDiv(RatInt(L), RatInt(d.nCol)))]]

\* _jacInlet rebuilt with the cell size taken as the column length
inletMappingNoCellSize(d, u, L) ==
    IF u >= 0
    THEN [i \in 1..d.nComp |->
            [row |-> (i - 1) * strideColComp(d), col |-> i - 1,
             val |-> RatNeg(RatDiv(RatInt(u), RatInt(L)))]]
    ELSE [i \in 1..d.nComp |->
            [row |-> (d.nCol - 1) * strideColCell(d) + (i - 1) * strideColComp(d), col |-> i - 1,
             val |-> RatDiv(RatInt(u), RatInt(L))]]

\* _jacInlet after it is cleared and rebuilt for velocity u and column length L
inletMapping(d, u, L) ==
    LET h == RatDiv(RatInt(L), RatInt(d.nCol))
    IN  IF u >= 0
        THEN [i \in 1..d.nComp |->
                [row |-> (i - 1) * strideColComp(d), col |-> i - 1,
                 val |-> RatDiv(RatNeg(RatInt(u)), h)]]
        ELSE [i \in 1..d.nComp |->
                [row |-> (d.nCol - 1) * strideColCell(d) + (i - 1) * strideColComp(d),
                 col |-> i - 1,
                 val |-> RatDiv(RatInt(u), h)]]

\* The convection dispersion operator takes the flow direction dirNew of the
\* section and reports whether the direction has changed
convNotifyChanged(c, dirNew) == dirNew # c.dir

convNotifyVelocity(c, dirNew) == dirNew * Abs(c.curVelocity)

\* notifyDiscontinuousSectionTransition(t, secIdx): the section has flow
\* direction dirNew.  A simulation enters section 0 first.
NotifyDiscontinuousSectionTransition(secIdx, dirNew) ==
    /\ pc = "configured"
    /\ secIdx = 0 \/ conv.dir # 0
    /\ LET n == disc.nComp * disc.nParType
           assemble == \/ secIdx = 0
                       \/ isSectionDependent(par.filmDiffusion, n)
                       \/ isSectionDependent(par.parDiffusion, n)
           changed == convNotifyChanged(conv, dirNew)
           u == convNotifyVelocity(conv, dirNew)
       IN  /\ offdiag' = IF assemble THEN assembleOffdiagJac(disc, par, secIdx) ELSE offdiag
           /\ conv' = [conv EXCEPT !.dir = dirNew, !.curVelocity = u]
           /\ jacInlet' = IF changed THEN inletMapping(disc, u, conv.colLength) ELSE jacInlet
           /\ lastOp' = [op |-> "notifyDiscontinuousSectionTransition", secIdx |-> secIdx,
                         assembled |-> assemble, rebuilt |-> changed,
                         uBefore |-> conv.curVelocity]
    /\ UNCHANGED <<pc, provider, disc, hasSurfaceDiffusion, par, jacP, sys, factorizeJacobian, run>>

\* setFlowRates: the flow rate gives a velocity of magnitude q in the
\* current flow direction
SetFlowRates(q) ==
    /\ pc = "configured"
    /\ conv' = [conv EXCEPT !.curVelocity = IF conv.dir < 0 THEN -q ELSE q]
    /\ lastOp' = [op |-> "setFlowRates"]
    /\ UNCHANGED <<pc, provider, disc, hasSurfaceDiffusion, par, jacInlet, offdiag, jacP, sys, factorizeJacobian, run>>

\* --------------------------------------------------------- parameter updates
\* The sentinels of a parameter id for "no particle type" and "no section"
ParTypeIndep == -1

SectionIndep == -1

NoParam == [name |-> "none", idx |-> 0]

\* The entry of _parameters that configure has registered for pId: the array
\* and the index of the value, or NoParam
registeredParam(d, p, pId) ==
    LET perType(single, registered) ==
            IF ~registered THEN NoParam
            ELSE IF single
                 THEN IF pId.particleType = ParTypeIndep /\ pId.section = SectionIndep
                      THEN [name |-> pId.name, idx |-> 0] ELSE NoParam
            ELSE IF pId.particleType \in 0..(d.nParType - 1) /\ pId.section = SectionIndep
                 THEN [name |-> pId.name, idx |-> pId.particleType] ELSE NoParam
    IN  IF pId.name = "PAR_TYPE_VOLFRAC"
        THEN IF p.axiallyConstantParTypeVolFrac
             THEN IF pId.particleType \in 0..(d.nParType - 1) /\ pId.section = SectionIndep
                  THEN [name |-> pId.name, idx |-> pId.particleType] ELSE NoParam
             ELSE IF pId.particleType \in 0..(d.nParType - 1) /\ pId.section \in 0..(d.nCol - 1)
                  THEN [name |-> pId.name, idx |-> pId.section * d.nParType + pId.particleType]
                  ELSE NoParam
        ELSE IF pId.name = "PAR_RADIUS" THEN perType(p.singleParRadius, TRUE)
        ELSE IF pId.name = "PAR_CORERADIUS"
             THEN perType(p.singleParCoreRadius, p.parCoreRadiusRegistered)
        ELSE NoParam

\* setValue on the registered value `target`
setValue(p, target, value) ==
    IF target.name = "PAR_TYPE_VOLFRAC"
    THEN [p EXCEPT !.parTypeVolFrac[target.idx] = value, !.parTypeVolFracDev[target.idx] = 0]
    ELSE IF target.name = "PAR_RADIUS" THEN [p EXCEPT !.parRadius[target.idx] = value]
    ELSE IF target.name = "PAR_CORERADIUS" THEN [p EXCEPT !.parCoreRadius[target.idx] = value]
    ELSE p

\* The interception of PAR_TYPE_VOLFRAC: the value of the particle type is
\* written to every axial cell
setVolFracAllCells(d, p, type, value) ==
    [p EXCEPT !.parTypeVolFrac = [i \in DOMAIN p.parTypeVolFrac |->
                                     IF i % d.nParType = type THEN value
                                     ELSE p.parTypeVolFrac[i]],
              !.parTypeVolFracDev = [i \in DOMAIN p.parTypeVolFracDev |->
                                        IF i % d.nParType = type THEN 0
                                        ELSE p.parTypeVolFracDev[i]]]

\* Whether multiplexTypeParameterValue takes the parameter: a radius or core
\* radius given as one value for all particle types and addressed without
\* a particle type; with sensitive set, only if it is a sensitive parameter
multiplexTypeParameterTakes(p, pId, sensitive) ==
    /\ pId.name \in {"PAR_RADIUS", "PAR_CORERADIUS"}
    /\ IF pId.name = "PAR_RADIUS" THEN p.singleParRadius ELSE p.singleParCoreRadius
    /\ pId.particleType = ParTypeIndep
    /\ sensitive => [name |-> pId.name, idx |-> 0] \in p.sensParams

\* multiplexTypeParameterValue: the value is written for every particle type
multiplexTypeParameterValue(p, pId, value) ==
    IF pId.name = "PAR_RADIUS"
    THEN [p EXCEPT !.parRadius = [t \in DOMAIN p.parRadius |-> value]]
    ELSE [p EXCEPT !.parCoreRadius = [t \in DOMAIN p.parCoreRadius |-> value]]

\* The tail of the three setters: updateRadialDisc if the name is PAR_RADIUS
\* or PAR_CORERADIUS and, for setParameter, the parameter was found
radialDiscUpdated(d, p, pId, found) ==
    IF found /\ pId.name \in {"PAR_RADIUS", "PAR_CORERADIUS"}
    THEN [p EXCEPT !.geometry = updateRadialDisc(d, p.parRadius, p.parCoreRadius)]
    ELSE p

\* setParameter(pId, value): the parameters afterwards and the value returned
setParameter(d, p, pId, value) ==
    IF p.axiallyConstantParTypeVolFrac /\ pId.name = "PAR_TYPE_VOLFRAC"
    THEN IF pId.section # SectionIndep \/ pId.particleType \notin 0..(d.nParType - 1)
         THEN [par |-> p, result |-> FALSE]
         ELSE [par |-> setVolFracAllCells(d, p, pId.particleType, value), result |-> TRUE]
    ELSE IF multiplexTypeParameterTakes(p, pId, FALSE)
    THEN [par |-> multiplexTypeParameterValue(p, pId, value), result |-> TRUE]
    ELSE LET target == registeredParam(d, p, pId)
             result == target # NoParam
         IN  [par |-> radialDiscUpdated(d, setValue(p, target, value), pId, result),
              result |-> result]

\* setSensitiveParameterValue(pId, value): the parameters afterwards
setSensitiveParameterValue(d, p, pId, value) ==
    IF p.axiallyConstantParTypeVolFrac /\ pId.name = "PAR_TYPE_VOLFRAC"
    THEN IF pId.section # SectionIndep \/ pId.particleType \notin 0..(d.nParType - 1)
         THEN p
         ELSE IF [name |-> pId.name, idx |-> pId.particleType] \notin p.sensParams THEN p
         ELSE setVolFracAllCells(d, p, pId.particleType, value)
    ELSE IF multiplexTypeParameterTakes(p, pId, TRUE)
    THEN multiplexTypeParameterValue(p, pId, value)
    ELSE LET target == registeredParam(d, p, pId)
         IN  radialDiscUpdated(d, IF target \in p.sensParams THEN setValue(p, target, value)
                                  ELSE p, pId, TRUE)

\* setSensitiveParameter(pId, adDirection, adValue): the parameter is made
\* sensitive; the nominal values stay as they are
setSensitiveParameter(d, p, pId) ==
    IF p.axiallyConstantParTypeVolFrac /\ pId.name = "PAR_TYPE_VOLFRAC"
    THEN IF pId.section # SectionIndep \/ pId.particleType \notin 0..(d.nParType - 1)
         THEN [par |-> p, result |-> FALSE]
         ELSE [par |-> [p EXCEPT !.sensParams =
                           @ \cup {[name |-> pId.name, idx |-> pId.particleType]}],
               result |-> TRUE]
    ELSE IF multiplexTypeParameterTakes(p, pId, FALSE)
    THEN [par |-> [p EXCEPT !.sensParams = @ \cup {[name |-> pId.name, idx |-> 0]}],
          result |-> TRUE]
    ELSE LET target == registeredParam(d, p, pId)
             q == IF target # NoParam THEN [p EXCEPT !.sensParams = @ \cup {target}] ELSE p
         IN  [par |-> radialDiscUpdated(d, q, pId, TRUE), result |-> target # NoParam]

\* The three setters as operations on a configured unit
SetParameter(pId, value) ==
    /\ pc = "configured"
    /\ par' = setParameter(disc, par, pId, value).par
    /\ lastOp' = [op |-> "setParameter", name |-> pId.name,
                  result |-> setParameter(disc, par, pId, value).result]
    /\ UNCHANGED <<pc, provider, disc, hasSurfaceDiffusion, conv, jacInlet, offdiag, jacP, sys, factorizeJacobian, run>>

SetSensitiveParameterValue(pId, value) ==
    /\ pc = "configured"
    /\ par' = setSensitiveParameterValue(disc, par, pId, value)
    /\ lastOp' = [op |-> "setSensitiveParameterValue", name |-> pId.name,
                  result |-> par' # par]
    /\ UNCHANGED <<pc, provider, disc, hasSurfaceDiffusion, conv, jacInlet, offdiag, jacP, sys, factorizeJacobian, run>>

SetSensitiveParameter(pId) ==
    /\ pc = "configured"
    /\ par' = setSensitiveParameter(disc, par, pId).par
    /\ lastOp' = [op |-> "setSensitiveParameter", name |-> pId.name,
                  result |-> setSensitiveParameter(disc, par, pId).result]
    /\ UNCHANGED <<pc, provider, disc, hasSurfaceDiffusion, conv, jacInlet, offdiag, jacP, sys, factorizeJacobian, run>>

\* setParameter for PAR_TYPE_VOLFRAC of particle type `type` when the volume
\* fractions are axially constant: the value is written to every axial cell
SetParameterParTypeVolFrac(type, value) ==
    /\ pc = "configured"
    /\ par.axiallyConstantParTypeVolFrac
    /\ type < disc.nParType
    /\ SetParameter([name |-> "PAR_TYPE_VOLFRAC", particleType |-> type,
                     section |-> SectionIndep], value)

\* ------------------------------------------------------- inlet and outlet
\* localOutletComponentIndex with the outlet taken to be the last cell for
\* either flow direction
localOutletComponentIndexLastCell(d, c, port) == d.nComp + (d.nCol - 1) * d.nComp

\* localOutletComponentIndex(port): the outlet is the last axial cell for
\* forward flow and the first one for backward flow
localOutletComponentIndex(d, c, port) ==
    IF c.curVelocity >= 0 THEN d.nComp + (d.nCol - 1) * d.nComp ELSE d.nComp

localInletComponentIndex(d, c, port) == 0

localOutletComponentStride(d, c, port) == 1

localInletComponentStride(d, c, port) == 1

\* ------------------------------------------------------ particle residual
\* The sum of the values of a set of terms [row, idx, val, ...]
RECURSIVE RatSum(_)
RatSum(S) ==
    IF S = {} THEN RatInt(0)
    ELSE LET x == CHOOSE y \in S : TRUE IN RatAdd(x.val, RatSum(S \ {x}))

\* curIdx of bound state i of component comp, relative to the row of comp
curIdx(d, t, comp, i) == strideParLiquid(d) - comp + offsetBoundComp(d, t, comp) + i

\* parDiff[comp] and parSurfDiff[k] of particle type t in section secIdx
parDiffOf(d, p, secIdx, t, comp) ==
    p.parDiffusion[sectionOffset(p.parDiffusion, d.nComp * d.nParType, secIdx)
                      + t * d.nComp + comp]

\* parSurfDiff taken from the start of the section, not of the type
parSurfDiffOfFirstType(d, p, secIdx, t, k) ==
    p.parSurfDiffusion[sectionOffset(p.parSurfDiffusion, d.strideBound[d.nParType], secIdx) + k]

parSurfDiffOf(d, p, secIdx, t, k) ==
    p.parSurfDiffusion[sectionOffset(p.parSurfDiffusion, d.strideBound[d.nParType], secIdx)
                          + d.nBoundBeforeType[t] + k]

invBetaP(d, p, t, comp) ==
    RatDiv(RatSub(RatInt(1), p.parPorosity[t]),
           RatMul(p.poreAccessFactor[d.nComp * t + comp], p.parPorosity[t]))

\* Whether the binding model of type t has a bound state that is not
\* quasi-stationary
hasDynamicReactions(d, p, t) ==
    \E bnd \in 0..(d.strideBound[t] - 1) : ~p.qsReaction[t][bnd]

\* A flux through a shell surface, area * coef * (y[far] - y[near]) / dr taken
\* off the residual (outer surface) or area * coef * (y[near] - y[far]) / dr
\* added to it (inner surface): the coefficients of y[row + near] and
\* y[row + far] in residual row `row`, labelled with the source line
fluxTerms(row, near, far, area, coef, dr, line, i) ==
    LET v == RatDiv(RatMul(area, coef), dr)
    IN  {[row |-> row, idx |-> near, val |-> v, line |-> line, i |-> i],
         [row |-> row, idx |-> far, val |-> RatNeg(v), line |-> line, i |-> i]}

\* The two surfaces of shell `shell` of type t: area per volume, distance of
\* the cell centres and direction of the neighbouring shell
shellSurfaces(d, p, t, shell) ==
    LET g(s) == p.geometry[d.nParCellsBeforeType[t] + s]
    IN  (IF shell # 0
         THEN {[face |-> "outer", area |-> g(shell).outerSurfAreaPerVolume,
                dr |-> RatSub(g(shell - 1).centerRadius, g(shell).centerRadius),
                far |-> -strideParShell(d, t)]}
         ELSE {})
        \cup
        (IF shell # d.nParCell[t] - 1
         THEN {[face |-> "inner", area |-> g(shell).innerSurfAreaPerVolume,
                dr |-> RatSub(g(shell).centerRadius, g(shell + 1).centerRadius),
                far |-> strideParShell(d, t)]}
         ELSE {})

\* The transport terms residualParticle puts into the residual of block
\* (t, .): the coefficient val of y[row + idx] in residual row `row`
residualTerms(d, p, hasSD, secIdx, t) ==
    UNION {UNION {
        \* mobile phase
        UNION {LET row == shell * strideParShell(d, t) + comp
                   cp == fluxTerms(row, 0, f.far, f.area, parDiffOf(d, p, secIdx, t, comp), f.dr,
                                   IF f.face = "outer" THEN 1115 ELSE 1163, 0)
                   q == IF hasSD[t]
                        THEN UNION {fluxTerms(row, curIdx(d, t, comp, i),
                                              f.far + curIdx(d, t, comp, i), f.area,
                                              RatMul(parSurfDiffOf(d, p, secIdx, t,
                                                        offsetBoundComp(d, t, comp) + i),
                                                     invBetaP(d, p, t, comp)),
                                              f.dr, IF f.face = "outer" THEN 1129 ELSE 1173, i) :
                                      i \in 0..(d.nBound[d.nComp * t + comp] - 1)}
                        ELSE {}
               IN  cp \cup q : comp \in 0..(d.nComp - 1)}
        \cup
        \* solid phase
        (IF hasSD[t] /\ hasDynamicReactions(d, p, t)
         THEN UNION {IF p.qsReaction[t][bnd] THEN {}
                     ELSE fluxTerms(shell * strideParShell(d, t) + d.nComp + bnd, 0, f.far,
                                    f.area, parSurfDiffOf(d, p, secIdx, t, bnd), f.dr,
                                    IF f.face = "outer" THEN 1216 ELSE 1236, bnd) :
                        bnd \in 0..(d.strideBound[t] - 1)}
         ELSE {})
        : f \in shellSurfaces(d, p, t, shell)} : shell \in 0..(d.nParCell[t] - 1)}

\* The additions residualParticle makes through the row cursor when the
\* Jacobian is wanted: val is added to jac[idx] of row `row`
jacobianWrites(d, p, hasSD, secIdx, t) ==
    UNION {UNION {
        \* mobile phase
        UNION {LET row == shell * strideParShell(d, t) + comp
                   cp == fluxTerms(row, 0, f.far, f.area, parDiffOf(d, p, secIdx, t, comp), f.dr,
                                   IF f.face = "outer" THEN 1139 ELSE 1183, 0)
                   q == UNION {fluxTerms(row, curIdx(d, t, comp, i),
                                         f.far + curIdx(d, t, comp, i), f.area,
                                         RatMul(invBetaP(d, p, t, comp),
                                                parSurfDiffOf(d, p, secIdx, t,
                                                   offsetBoundComp(d, t, comp) + i)),
                                         f.dr, IF f.face = "outer" THEN 1147 ELSE 1191, i) :
                                 i \in 0..(d.nBound[d.nComp * t + comp] - 1)}
               IN  IF hasSD[t] THEN cp \cup q ELSE {} : comp \in 0..(d.nComp - 1)}
        \cup
        \* solid phase
        (IF hasSD[t] /\ hasDynamicReactions(d, p, t)
         THEN UNION {IF p.qsReaction[t][bnd] THEN {}
                     ELSE fluxTerms(shell * strideParShell(d, t) + d.nComp + bnd, 0, f.far,
                                    f.area, parSurfDiffOf(d, p, secIdx, t, bnd), f.dr,
                                    IF f.face = "outer" THEN 1223 ELSE 1243, bnd) :
                        bnd \in 0..(d.strideBound[t] - 1)}
         ELSE {})
        : f \in shellSurfaces(d, p, t, shell)} : shell \in 0..(d.nParCell[t] - 1)}

\* The rows by which residualParticle moves res, y and jac over the solid
\* phase of a shell: one per pass of the loop over the bound states, which a
\* quasi-stationary bound state leaves through continue, or strideParBound
\* at once if the loop is not entered
solidPhaseAdvance(d, p, hasSD, t) ==
    IF hasSD[t] /\ hasDynamicReactions(d, p, t)
    THEN Cardinality({bnd \in 0..(d.strideBound[t] - 1) : TRUE})
    ELSE strideParBound(d, t)

\* Whether the cursor index idx lies in the band of matrix m
inBand(m, idx) == -m.lowerBandwidth <= idx /\ idx <= m.upperBandwidth

\* The element of band matrix m a cursor write w lands on: rows are stored
\* one after the other, each from its lowest to its highest diagonal, and an
\* index past the band runs on into the storage that follows
landing(m, w) ==
    LET stride == m.lowerBandwidth + 1 + m.upperBandwidth
        pos == w.row * stride + m.lowerBandwidth + w.idx
    IN  [inside |-> pos >= 0 /\ pos < m.rows * stride,
         row |-> pos \div stride,
         idx |-> (pos % stride) - m.lowerBandwidth]

\* Band matrix m after setAll(0.0) and the cursor writes ws
bandAfterWrites(m, ws) ==
    LET landed == {[at |-> landing(m, w), val |-> w.val, w |-> w] : w \in ws}
        hit == {x.at : x \in {y \in landed : y.at.inside}}
        sums == {[row |-> h.row, idx |-> h.idx,
                  val |-> RatSum({x \in landed : x.at = h})] : h \in hit}
    IN  [m EXCEPT !.data = {e \in sums : e.val # RatInt(0)}]

\* The element of band matrix m in row `row` on diagonal idx
bandElement(m, row, idx) ==
    IF \E e \in m.data : e.row = row /\ e.idx = idx
    THEN (CHOOSE e \in m.data : e.row = row /\ e.idx = idx).val
    ELSE RatInt(0)

\* residualParticle for block (parType, colCell) in section secIdx.  A cursor
\* index outside the band fails the range assertion of a checking build and
\* runs into the neighbouring storage otherwise.
ResidualParticle(parType, colCell, secIdx, wantJac, checkingBuild) ==
    /\ pc = "configured"
    /\ parType < disc.nParType
    /\ colCell < disc.nCol
    /\ LET blk == disc.nCol * parType + colCell
           ws == jacobianWrites(disc, par, hasSurfaceDiffusion, secIdx, parType)
           outside == \E w \in ws : ~inBand(jacP[blk], w.idx)
       IN  /\ lastOp' = [op |-> "residualParticle", parType |-> parType, colCell |-> colCell,
                         secIdx |-> secIdx, wantJac |-> wantJac,
                         cursor |-> IF wantJac THEN {[row |-> w.row, idx |-> w.idx] : w \in ws}
                                    ELSE {}]
           /\ IF wantJac /\ outside /\ checkingBuild
              THEN pc' = "aborted" /\ UNCHANGED jacP
              ELSE /\ pc' = pc
                   /\ jacP' = IF wantJac
                              THEN [jacP EXCEPT ![blk] = bandAfterWrites(jacP[blk], ws)]
                              ELSE jacP
    /\ UNCHANGED <<provider, disc, hasSurfaceDiffusion, par, conv, jacInlet, offdiag, sys, factorizeJacobian, run>>

\* prepareAdVectorSeedsForBandMatrix: the AD direction that seeds state j of a
\* block whose Jacobian is band matrix m, the diagonal taking direction
\* lowerBandwidth
adDirection(m, j) == (m.lowerBandwidth + j) % (m.lowerBandwidth + m.upperBandwidth + 1)

\* ------------------------------------------- time derivative Jacobian
\* multiplyWithDerivativeJacobianKernel on the shell at offset base of a
\* particle of type `type`: every row written and, per row, the entries of
\* sDot it is computed from with their factors.  A mobile phase row takes its
\* own entry and invBetaP times the entries of its bound states, a bound
\* state row its own entry, or nothing if the bound state is quasi-stationary.
derivativeKernelWrites(d, p, type, base) ==
    LET invBeta == RatSub(RatDiv(RatInt(1), p.parPorosity[type]), RatInt(1))
    IN  {[row |-> base + comp,
          cols |-> {[col |-> base + comp, coef |-> RatInt(1)]}
                     \cup {[col |-> base + d.nComp + d.boundOffset[type * d.nComp + comp] + i,
                            coef |-> invBeta] :
                              i \in 0..(d.nBound[type * d.nComp + comp] - 1)}] :
            comp \in 0..(d.nComp - 1)}
          \cup {[row |-> base + d.nComp + bnd,
                 cols |-> IF p.qsReaction[type][bnd] THEN {}
                          ELSE {[col |-> base + d.nComp + bnd, coef |-> RatInt(1)]}] :
                  bnd \in 0..(d.strideBound[type] - 1)}

\* offsetCpShell with the shells taken to hold the mobile phase only
derivativeShellOffsetLiquidStride(d, type, pblk, shell) ==
    offsetCp(d, type, pblk) + shell * strideParLiquid(d)

\* offsetCpShell of the shell `shell` of particle pblk of type `type`
derivativeShellOffset(d, type, pblk, shell) ==
    offsetCp(d, type, pblk) + shell * strideParShell(d, type)

\* The rows written by the tasks of multiplyWithDerivativeJacobian: task 0
\* is the convection dispersion operator, which takes over the bulk entries
\* of sDot; task idx >= 1 runs the kernel on every shell of one particle
derivativeTaskWrites(d, p, idx) ==
    IF idx = 0
    THEN {[task |-> 0, row |-> i, cols |-> {[col |-> i, coef |-> RatInt(1)]}] :
            i \in offsetC(d)..(offsetC(d) + d.nCol * d.nComp - 1)}
    ELSE LET pblk == (idx - 1) % d.nCol
             type == (idx - 1) \div d.nCol
         IN  UNION {{[task |-> idx, row |-> w.row, cols |-> w.cols] :
                        w \in derivativeKernelWrites(d, p, type,
                                  derivativeShellOffset(d, type, pblk, shell))} :
                    shell \in 0..(d.nParCell[type] - 1)}

\* multiplyWithDerivativeJacobian(sDot, ret): the writes of all tasks and the
\* vector ret afterwards, ret0 being what the caller's vector held before;
\* the flux and inlet entries are filled with zeros at the end
multiplyWithDerivativeJacobian(d, p, sDot, ret0) ==
    LET writes == UNION {derivativeTaskWrites(d, p, idx) :
                            idx \in 0..(d.nCol * d.nParType)}
        value(w) == RatSum({[val |-> RatMul(c.coef, sDot[c.col]), c |-> c] : c \in w.cols})
        last(i) == CHOOSE w \in writes :
                      w.row = i /\ \A v \in writes : v.row = i => v.task <= w.task
    IN  [writes |-> writes,
         ret |-> [i \in 0..(numDofs(d) - 1) |->
                    IF i >= offsetJf(d) /\ i < offsetJf(d) + d.nCol * d.nComp * d.nParType
                    THEN RatInt(0)
                    ELSE IF i < d.nComp THEN RatInt(0)
                    ELSE IF \E w \in writes : w.row = i THEN value(last(i))
                    ELSE ret0[i]]]

MultiplyWithDerivativeJacobian(sDot, ret0) ==
    /\ pc = "configured"
    /\ lastOp' = [op |-> "multiplyWithDerivativeJacobian", sDot |-> sDot,
                  writes |-> multiplyWithDerivativeJacobian(disc, par, sDot, ret0).writes,
                  ret |-> multiplyWithDerivativeJacobian(disc, par, sDot, ret0).ret]
    /\ UNCHANGED <<pc, provider, disc, hasSurfaceDiffusion, par, conv, jacInlet, offdiag, jacP, sys, factorizeJacobian, run>>

\* ------------------------------------- residual and Jacobian product
\* The particle block of task pblk >= 1 with the type running fastest
taskBlockTypeMinor(d, pblk) ==
    [type |-> (pblk - 1) % d.nParType, par |-> (pblk - 1) \div d.nParType]

\* The particle block task pblk >= 1 of the parallel loop works on
taskBlock(d, pblk) ==
    [type |-> (pblk - 1) \div d.nCol, par |-> (pblk - 1) % d.nCol]

\* The Jacobian block residualParticle resets and fills for task pblk >= 1
taskJacobianBlock(d, pblk) == d.nCol * taskBlock(d, pblk).type + taskBlock(d, pblk).par

\* The entries of the residual or result vector task pblk writes: the bulk
\* block for task 0, the particle block of (type, par) otherwise
taskRange(d, pblk) ==
    IF pblk = 0 THEN offsetC(d)..(offsetC(d) + d.nCol * d.nComp - 1)
    ELSE LET b == taskBlock(d, pblk)
         IN  offsetCp(d, b.type, b.par)..(offsetCp(d, b.type, b.par) + strideParBlock(d, b.type) - 1)

\* extractBandedJacobianFromAd on band matrix m: the element on diagonal idx
\* of a row is the directional derivative of the residual row in the AD
\* direction of state row + idx, i.e. the sum of the derivatives with respect
\* to all states of the block that carry that direction; terms are the
\* derivatives of the residual of the block
extractBandedJacobianFromAd(m, terms) ==
    LET element(r, i) ==
            RatSum({x \in terms : x.row = r /\ adDirection(m, r + x.idx) = adDirection(m, r + i)})
    IN  [m EXCEPT !.data =
            {e \in {[row |-> r, idx |-> i, val |-> element(r, i)] :
                       r \in 0..(m.rows - 1), i \in (-m.lowerBandwidth)..m.upperBandwidth} :
                e.row + e.idx >= 0 /\ e.row + e.idx < m.rows /\ e.val # RatInt(0)}]

\* The Jacobian of the convection dispersion operator, a band matrix over the
\* bulk block that the operator keeps to itself: element (row, col)
bulkJacobian(d, row, col) ==
    IF Abs(row - col) <= d.nComp THEN RatInt(row + 2 * col + 1) ELSE RatInt(0)

\* Row `row` of band matrix m times the part of x that starts at base
bandTimes(m, x, base, row) ==
    RatSum({[val |-> RatMul(e.val, x[base + e.row + e.idx]), e |-> e] :
               e \in {f \in m.data : f.row = row}})

\* Row `row` of the sparse matrix with elements seq times the part of x that
\* starts at base
sparseTimes(seq, x, base, row) ==
    RatSum({[val |-> RatMul(seq[i].val, x[base + seq[i].col]), i |-> i] :
               i \in {j \in DOMAIN seq : seq[j].row = row}})

\* ret[i] after task pblk of multiplyWithJacobian, i in the range of the task
multiplyTask(d, r, pblk, i) ==
    IF pblk = 0
    THEN LET row == i - offsetC(d)
             jc == RatSum({[val |-> RatMul(bulkJacobian(d, row, col), r.yS[offsetC(d) + col]),
                            col |-> col] : col \in 0..(d.nCol * d.nComp - 1)})
         IN  RatAdd(RatAdd(RatMul(r.alpha, jc), RatMul(r.beta, r.ret[i])),
                    RatMul(r.alpha, sparseTimes(offdiag.jacCF, r.yS, offsetJf(d), row)))
    ELSE LET b == taskBlock(d, pblk)
             localOffset == offsetCp(d, b.type, b.par)
             row == i - localOffset
         IN  RatAdd(RatAdd(RatMul(r.alpha, bandTimes(jacP[pblk - 1], r.yS, localOffset, row)),
                           RatMul(r.beta, r.ret[i])),
                    RatMul(r.alpha, sparseTimes(offdiag.jacPF[pblk - 1], r.yS, offsetJf(d), row)))

\* The serial part doing the identity of the flux rows and nothing else
multiplyFluxIdentityOnly(d, r, i) ==
    IF i >= offsetJf(d) THEN RatAdd(RatMul(r.alpha, r.yS[i]), RatMul(r.beta, r.ret[i]))
    ELSE r.ret[i]

\* ret[i] after the serial part of multiplyWithJacobian that follows the
\* tasks: the flux rows, then the inlet mapping added to the bulk rows
multiplyFlux(d, r, i) ==
    IF i >= offsetJf(d)
    THEN LET row == i - offsetJf(d)
             fp == RatSum({[val |-> sparseTimes(offdiag.jacFP[blk], r.yS,
                                                offsetCp(d, blk \div d.nCol, blk % d.nCol), row),
                            blk |-> blk] : blk \in 0..(d.nCol * d.nParType - 1)})
         IN  RatAdd(RatAdd(RatMul(r.alpha, r.yS[i]), RatMul(r.beta, r.ret[i])),
                    RatMul(r.alpha, RatAdd(sparseTimes(offdiag.jacFC, r.yS, offsetC(d), row), fp)))
    ELSE IF i >= offsetC(d) /\ i < offsetC(d) + d.nCol * d.nComp
    THEN RatAdd(r.ret[i], RatMul(r.alpha, sparseTimes(jacInlet, r.yS, 0, i - offsetC(d))))
    ELSE r.ret[i]

\* The analytic Jacobian asked of residualImpl whenever it is available
residualWantsJacobianAlways(updateJacobian, analyticJac) == analyticJac

\* The template argument wantJac with which residual calls residualImpl
residualWantsJacobian(updateJacobian, analyticJac) == updateJacobian /\ analyticJac

\* residual(simTime, simState, res, adJac, threadLocalMem, updateJacobian,
\* paramSensitivity) up to the start of the parallel loop of residualImpl,
\* built without CADET_CHECK_ANALYTIC_JACOBIAN; analyticJac is _analyticJac
\* as useAnalyticJacobian has left it
Residual(secIdx, updateJacobian, paramSensitivity, analyticJac) ==
    /\ pc = "configured"
    /\ run.pc = "idle"
    /\ factorizeJacobian' = (updateJacobian \/ factorizeJacobian)
    /\ run' = [pc |-> "tasks", op |-> "residual", secIdx |-> secIdx,
               updateJacobian |-> updateJacobian, paramSensitivity |-> paramSensitivity,
               analyticJac |-> analyticJac,
               wantJac |-> residualWantsJacobian(updateJacobian, analyticJac),
               pending |-> 0..(disc.nCol * disc.nParType), running |-> {}, writes |-> {},
               jacPBefore |-> jacP, factorizeBefore |-> factorizeJacobian]
    /\ lastOp' = [op |-> "residual", pc |-> "tasks"]
    /\ UNCHANGED <<pc, provider, disc, hasSurfaceDiffusion, par, conv, jacInlet, offdiag, jacP, sys>>

\* multiplyWithJacobian(simTime, simState, yS, alpha, beta, ret) up to the
\* start of the parallel loop: the inlet rows are done
MultiplyWithJacobian(yS, alpha, beta, ret) ==
    /\ pc = "configured"
    /\ run.pc = "idle"
    /\ run' = [pc |-> "tasks", op |-> "multiplyWithJacobian", yS |-> yS, alpha |-> alpha,
               beta |-> beta, ret0 |-> ret,
               ret |-> [i \in DOMAIN ret |->
                          IF i < disc.nComp
                          THEN RatAdd(RatMul(alpha, yS[i]), RatMul(beta, ret[i])) ELSE ret[i]],
               wantJac |-> FALSE,
               pending |-> 0..(disc.nCol * disc.nParType), running |-> {},
               writes |-> {[task |-> -1, kind |-> "vector", at |-> i] : i \in 0..(disc.nComp - 1)},
               jacPBefore |-> jacP, factorizeBefore |-> factorizeJacobian]
    /\ lastOp' = [op |-> "multiplyWithJacobian", pc |-> "tasks"]
    /\ UNCHANGED <<pc, provider, disc, hasSurfaceDiffusion, par, conv, jacInlet, offdiag, jacP, sys,
                   factorizeJacobian>>

\* What the calling thread writes outside the parallel loop is logged as the
\* writes of task -1.
\* A thread takes task pblk of the parallel loop.  residualBulk and
\* residualParticle first reset the Jacobian they are about to fill.
TaskStart(pblk) ==
    /\ run.pc = "tasks"
    /\ pblk \in run.pending
    /\ LET blk == taskJacobianBlock(disc, pblk)
           reset == IF ~run.wantJac THEN {}
                    ELSE IF pblk = 0 THEN {[task |-> pblk, kind |-> "bulkJacobian", at |-> 0]}
                    ELSE {[task |-> pblk, kind |-> "jacP", at |-> blk]}
       IN  /\ run' = [run EXCEPT !.pending = @ \ {pblk}, !.running = @ \cup {pblk},
                                 !.writes = @ \cup reset]
           /\ jacP' = IF run.wantJac /\ pblk > 0
                      THEN [jacP EXCEPT ![blk] = bandAfterWrites(jacP[blk], {})]
                      ELSE jacP
    /\ UNCHANGED <<pc, lastOp, provider, disc, hasSurfaceDiffusion, par, conv, jacInlet, offdiag, sys,
                   factorizeJacobian>>

\* Task pblk runs to its end: it writes its range of the residual or of ret
\* and, if the Jacobian is wanted, its Jacobian
TaskFinish(pblk) ==
    /\ run.pc = "tasks"
    /\ pblk \in run.running
    /\ LET blk == taskJacobianBlock(disc, pblk)
           written == {[task |-> pblk, kind |-> "vector", at |-> i] : i \in taskRange(disc, pblk)}
       IN  /\ run' = IF run.op = "residual"
                     THEN [run EXCEPT !.running = @ \ {pblk}, !.writes = @ \cup written]
                     ELSE [run EXCEPT !.running = @ \ {pblk}, !.writes = @ \cup written,
                                      !.ret = [i \in DOMAIN @ |->
                                                 IF i \in taskRange(disc, pblk)
                                                 THEN multiplyTask(disc, run, pblk, i) ELSE @[i]]]
           /\ jacP' = IF run.wantJac /\ pblk > 0
                      THEN [jacP EXCEPT ![blk] =
                              bandAfterWrites(jacP[blk],
                                  jacobianWrites(disc, par, hasSurfaceDiffusion, run.secIdx,
                                                 taskBlock(disc, pblk).type))]
                      ELSE jacP
    /\ UNCHANGED <<pc, lastOp, provider, disc, hasSurfaceDiffusion, par, conv, jacInlet, offdiag, sys,
                   factorizeJacobian>>

\* The parallel loop has ended.  residualImpl runs residualFlux and copies
\* the inlet DOFs, and residual extracts the Jacobian from the AD residual if
\* it is updated without the analytic Jacobian; multiplyWithJacobian handles
\* the flux rows and the inlet mapping.  The call returns.
AfterTasks ==
    /\ run.pc = "tasks"
    /\ run.pending = {}
    /\ run.running = {}
    /\ LET rows == (0..(disc.nComp - 1)) \cup (offsetC(disc)..(numDofs(disc) - 1))
           serial == {[task |-> -1, kind |-> "vector", at |-> i] :
                         i \in IF run.op = "residual" THEN rows
                               ELSE offsetC(disc)..(offsetC(disc) + disc.nCol * disc.nComp - 1)
                                      \cup (offsetJf(disc)..(numDofs(disc) - 1))}
           extract == run.op = "residual" /\ run.updateJacobian /\ ~run.analyticJac
           extracted == {[task |-> -1, kind |-> "jacP", at |-> blk] :
                            blk \in IF extract THEN DOMAIN jacP ELSE {}}
           done == [run EXCEPT !.pc = "returned", !.writes = @ \cup serial \cup extracted]
       IN  /\ jacP' = IF extract
                      THEN [blk \in DOMAIN jacP |->
                              extractBandedJacobianFromAd(jacP[blk],
                                  residualTerms(disc, par, hasSurfaceDiffusion, run.secIdx,
                                                blk \div disc.nCol))]
                      ELSE jacP
           /\ lastOp' = IF run.op = "residual" THEN done
                        ELSE [done EXCEPT !.ret = [i \in DOMAIN @ |-> multiplyFlux(disc, run, i)]]
           /\ run' = NoRun
    /\ UNCHANGED <<pc, provider, disc, hasSurfaceDiffusion, par, conv, jacInlet, offdiag, sys,
                   factorizeJacobian>>

\* ------------------------------------------------------------ model system
\* A system of unit operations with nComp components each.  A unit with an
\* inlet owns the DOFs [inlet of port 0, ..., inlet of the last port, state],
\* a unit without one owns [state]; the coupling DOFs, one per inlet DOF,
\* follow the units.

Models(s) == 0..(s.nModels - 1)

unitNumComponents(s, i) == s.nComp

unitNumInletPorts(s, i) == IF s.hasInlet[i] THEN s.nPorts ELSE 0

unitInletIndex(s, i, port) == port * unitNumComponents(s, i)

unitInletStride == 1

unitNumInletDofs(s, i) == unitNumInletPorts(s, i) * unitNumComponents(s, i)

unitNumDofs(s, i) == unitNumInletDofs(s, i) + unitNumComponents(s, i)

RECURSIVE dofOffset(_, _)
dofOffset(s, i) == IF i = 0 THEN 0 ELSE dofOffset(s, i - 1) + unitNumDofs(s, i - 1)

finalOffset(s) == dofOffset(s, s.nModels)

\* Number of coupling DOFs consumed by the units before unit i
RECURSIVE couplingOffset(_, _)
couplingOffset(s, i) ==
    IF i = 0 THEN 0 ELSE couplingOffset(s, i - 1) + unitNumInletDofs(s, i - 1)

numCouplingDofs(s) == couplingOffset(s, s.nModels)

systemNumDofs(s) == finalOffset(s) + numCouplingDofs(s)

\* The inlet DOFs of the system
InletDofs(s) ==
    {[unit |-> i, port |-> port, comp |-> comp] :
        i \in {u \in Models(s) : s.hasInlet[u]}, port \in 0..(s.nPorts - 1),
        comp \in 0..(s.nComp - 1)}

couplingIndexCompMajor(s, i, port, comp) ==
    couplingOffset(s, i) + comp * unitNumInletPorts(s, i) + port

\* Position behind finalOffset of the coupling DOF that idxCoupling points
\* at when the loops reach (unit i, port, comp)
couplingIndex(s, i, port, comp) ==
    couplingOffset(s, i) + port * unitNumComponents(s, i) + comp

\* Position of an inlet DOF in the vector
inletDofIndex(s, e) ==
    dofOffset(s, e.unit) + unitInletIndex(s, e.unit, e.port) + e.comp * unitInletStride

unitOutletIndex(s, i, comp) == unitNumInletDofs(s, i) + comp

\* _jacFN[i]: the entries of the bottom macro-row that read unit i's outlet
jacFN(s, i) ==
    {[row |-> couplingIndex(s, e.unit, e.port, e.comp),
      col |-> unitOutletIndex(s, i, e.comp), val |-> -1] :
        e \in {f \in InletDofs(s) : <<i, f.unit>> \in s.conn}}

RECURSIVE sumValues(_)
sumValues(S) ==
    IF S = {} THEN 0
    ELSE LET x == CHOOSE e \in S : TRUE IN x.val + sumValues(S \ {x})

\* What the _jacFN[i].multiplySubtract calls take off coupling row r
multiplySubtractRow(s, vec, r) ==
    sumValues(UNION {{[unit |-> i, col |-> e.col, val |-> e.val * vec[dofOffset(s, i) + e.col]] :
                         e \in {f \in jacFN(s, i) : f.row = r}} : i \in Models(s)})

solveCouplingDOF(s, vec) ==
    LET fo == finalOffset(s)
        coupled == [j \in DOMAIN vec |->
                       IF j >= fo THEN vec[j] - multiplySubtractRow(s, vec, j - fo) ELSE vec[j]]
    IN [j \in DOMAIN vec |->
           IF \E e \in InletDofs(s) : j = inletDofIndex(s, e)
           THEN LET e == CHOOSE f \in InletDofs(s) : j = inletDofIndex(s, f)
                IN coupled[fo + couplingIndex(s, e.unit, e.port, e.comp)]
           ELSE coupled[j]]

\* std::fill over the coupling DOFs
zeroCouplingDofs(s, vec) == [j \in DOMAIN vec |-> IF j >= finalOffset(s) THEN 0 ELSE vec[j]]

\* ConsistentInit<tag_t>::state: the unit's routine, logged with what it sees
stateCall(s, i) ==
    [unit |-> i,
     routine |-> IF s.lean THEN "leanConsistentInitialState" ELSE "consistentInitialState",
     inlet |-> [k \in 1..unitNumInletDofs(s, i) |-> s.y[dofOffset(s, i) + k - 1]],
     coupled |-> s.coupled]

initializedBeforeCouplingAll(s, i) == TRUE

\* The units of the first loop of phase 1
initializedBeforeCoupling(s, i) == ~s.hasInlet[i]

\* The units of the second loop of phase 1
initializedAfterCoupling(s, i) == s.hasInlet[i]

residualTargetAlwaysYdot(s) == "vecStateYdot"

\* ConsistentInit<tag_t>::residualWithJacobian: where the residual of phase 2 goes
residualTarget(s) == IF s.lean THEN "tempState" ELSE "vecStateYdot"

\* ConsistentInit<tag_t>::timeDerivative: the unit's routine, logged with the
\* residual it is handed
timeDerivativeCall(s, i) ==
    [unit |-> i,
     routine |-> IF s.lean THEN "leanConsistentInitialTimeDerivative"
                 ELSE "consistentInitialTimeDerivative",
     res |-> IF s.lean
             THEN [k \in 1..unitNumDofs(s, i) |-> s.tempState[dofOffset(s, i) + k - 1]]
             ELSE <<>>]

\* ModelSystem::residualWithJacobian: residual without time derivatives
systemResidual(s, r) == [j \in 0..(systemNumDofs(s) - 1) |-> r * (j + 1)]

\* ConsistentInit<tag_t>::timeDerivative of unit i: the dynamic rows get the
\* negated residual, the algebraic inlet rows get 0
unitTimeDerivative(s, i) ==
    LET res == IF s.lean THEN s.tempState ELSE s.yDot
        off == dofOffset(s, i)
    IN [j \in DOMAIN s.yDot |->
           IF j >= off + unitNumInletDofs(s, i) /\ j < off + unitNumDofs(s, i) THEN 0 - res[j]
           ELSE IF j >= off /\ j < off + unitNumInletDofs(s, i) THEN 0
           ELSE s.yDot[j]]

InletGuess == 7
CouplingGuess == 9
DotGuess == 5

\* A system handed to consistentInitialConditions / leanConsistentInitialConditions
\* The units and their connections: every unit with an inlet is fed by the
\* unit listed before it, the first one by the last if the system recycles
systemLayout(n, nComp, nPorts, hasInlet, recycle) ==
    [nModels |-> n, nComp |-> nComp, nPorts |-> nPorts, hasInlet |-> hasInlet,
     conn |-> {<<d - 1, d>> : d \in {e \in 1..(n - 1) : hasInlet[e]}}
              \cup (IF recycle /\ hasInlet[0] THEN {<<n - 1, 0>>} ELSE {})]

\* A state vector as the caller provides it
stateAtEntry(s0) ==
    [j \in 0..(systemNumDofs(s0) - 1) |->
        IF j >= finalOffset(s0) THEN CouplingGuess
        ELSE IF \E e \in InletDofs(s0) : j = inletDofIndex(s0, e) THEN InletGuess
        ELSE LET u == CHOOSE v \in Models(s0) : j >= dofOffset(s0, v) /\ j < dofOffset(s0, v + 1)
             IN 1 + u + 5 * (j - dofOffset(s0, u) - unitNumInletDofs(s0, u))]

systemAtEntry(lean, s0) ==
    LET hasInlet == s0.hasInlet
        n == s0.nModels
    IN [pc |-> "stateWithoutInlet", lean |-> lean, nModels |-> n, hasInlet |-> hasInlet,
        nComp |-> s0.nComp, nPorts |-> s0.nPorts,
        conn |-> s0.conn, i |-> 0, coupled |-> FALSE, calls |-> <<>>, derivCalls |-> <<>>,
        y |-> stateAtEntry(s0),
        yDot |-> [j \in 0..(systemNumDofs(s0) - 1) |-> DotGuess],
        tempState |-> [j \in 0..(systemNumDofs(s0) - 1) |-> 0],
        status |-> 0, returned |-> <<>>]

ConsistentInitialConditions(lean, s0) ==
    /\ sys.pc = "idle"
    /\ sys' = systemAtEntry(lean, s0)
    /\ UNCHANGED unitVars

\* Phase 1, first loop
StateWithoutInlet ==
    /\ sys.pc = "stateWithoutInlet"
    /\ sys.i < sys.nModels
    /\ sys' = [sys EXCEPT !.i = @ + 1,
                          !.calls = IF initializedBeforeCoupling(sys, sys.i)
                                    THEN Append(@, stateCall(sys, sys.i)) ELSE @]
    /\ UNCHANGED unitVars

\* Phase 1, coupling DOFs of the state
CouplingOfState ==
    /\ sys.pc = "stateWithoutInlet"
    /\ sys.i = sys.nModels
    /\ sys' = [sys EXCEPT !.pc = "stateWithInlet", !.i = 0, !.coupled = TRUE,
                          !.y = solveCouplingDOF(sys, zeroCouplingDofs(sys, @))]
    /\ UNCHANGED unitVars

\* Phase 1, second loop
StateWithInlet ==
    /\ sys.pc = "stateWithInlet"
    /\ sys.i < sys.nModels
    /\ sys' = [sys EXCEPT !.i = @ + 1,
                          !.calls = IF initializedAfterCoupling(sys, sys.i)
                                    THEN Append(@, stateCall(sys, sys.i)) ELSE @]
    /\ UNCHANGED unitVars

\* Phase 2: the residual goes to vecStateYdot (full) or _tempState (lean);
\* the status the call returns is dropped
ResidualPhase(status, r) ==
    /\ sys.pc = "stateWithInlet"
    /\ sys.i = sys.nModels
    /\ sys' = [sys EXCEPT !.pc = "timeDerivative", !.i = 0, !.status = status,
                          !.yDot = IF residualTarget(sys) = "vecStateYdot"
                                   THEN systemResidual(sys, r) ELSE @,
                          !.tempState = IF residualTarget(sys) = "tempState"
                                        THEN systemResidual(sys, r) ELSE @]
    /\ UNCHANGED unitVars

\* Phase 3, loop over all units
TimeDerivative ==
    /\ sys.pc = "timeDerivative"
    /\ sys.i < sys.nModels
    /\ sys' = [sys EXCEPT !.i = @ + 1, !.yDot = unitTimeDerivative(sys, sys.i),
                          !.derivCalls = Append(@, timeDerivativeCall(sys, sys.i))]
    /\ UNCHANGED unitVars

\* Phase 3, coupling DOFs of the time derivative, and the void return
CouplingOfTimeDerivative ==
    /\ sys.pc = "timeDerivative"
    /\ sys.i = sys.nModels
    /\ sys' = [sys EXCEPT !.pc = "done", !.returned = <<>>,
                          !.yDot = solveCouplingDOF(sys, zeroCouplingDofs(sys, @))]
    /\ UNCHANGED unitVars

\* solveCouplingDOF applied to a vector of the system s0
SolveCouplingDOF(s0, vec) ==
    /\ sys.pc = "idle"
    /\ sys' = [pc |-> "coupled", nModels |-> s0.nModels, nComp |-> s0.nComp,
               nPorts |-> s0.nPorts, hasInlet |-> s0.hasInlet, conn |-> s0.conn,
               before |-> vec, after |-> solveCouplingDOF(s0, vec)]
    /\ UNCHANGED unitVars

\* ------------------------------------------------ initial sensitivities
SensParams(s) == 0..(s.nSens - 1)

\* adRes after dResDpFwdWithJacobian: the AD directions of the residual
adResidual(s0, nSens, k) ==
    [p \in 0..(nSens - 1) |-> [j \in 0..(systemNumDofs(s0) - 1) |-> k * (10 * (p + 1) + j)]]

\* A system handed to consistentInitialSensitivity / leanConsistentInitialSensitivity;
\* dResDpFwdWithJacobian has been evaluated
sensitivityAtEntry(lean, s0, nSens, k, dk) ==
    [pc |-> "sensitivity", lean |-> lean, nModels |-> s0.nModels, hasInlet |-> s0.hasInlet,
     nComp |-> s0.nComp, nPorts |-> s0.nPorts, conn |-> s0.conn, nSens |-> nSens,
     adDirOffset |-> nSens, adRes |-> adResidual(s0, nSens, k), connSens |-> dk,
     yDot |-> [j \in 0..(systemNumDofs(s0) - 1) |-> DotGuess],
     sensY |-> [p \in 0..(nSens - 1) |-> stateAtEntry(s0)],
     sensYdot |-> [p \in 0..(nSens - 1) |-> [j \in 0..(systemNumDofs(s0) - 1) |-> DotGuess]],
     i1 |-> 0, p1 |-> 0, i2 |-> 0, p2 |-> 0,
     log |-> <<[ev |-> "dResDpFwdWithJacobian", arg |-> nSens, seen |-> <<>>]>>]

\* ConsistentInit<tag_t>::parameterSensitivity of unit i, logged with the
\* inlet DOFs of every sensitivity direction it sees
sensitivityCall(s, i) ==
    [ev |-> IF s.lean THEN "leanConsistentInitialSensitivity" ELSE "consistentInitialSensitivity",
     arg |-> i,
     seen |-> [p \in SensParams(s) |->
                  [k \in 1..unitNumInletDofs(s, i) |-> s.sensY[p][dofOffset(s, i) + k - 1]]]]

\* The unit's sensitivity routine: the time derivatives of its dynamic rows
\* come from the AD residual, those of its inlet rows are 0
unitSensitivity(s, i) ==
    LET off == dofOffset(s, i)
    IN [p \in SensParams(s) |->
           [j \in DOMAIN s.sensYdot[p] |->
               IF j >= off + unitNumInletDofs(s, i) /\ j < off + unitNumDofs(s, i)
               THEN 0 - s.adRes[p][j]
               ELSE IF j >= off /\ j < off + unitNumInletDofs(s, i) THEN 0
               ELSE s.sensYdot[p][j]]]

sensitivityRightHandSidePlain(s, param, j) == s.adRes[param][j]

\* vsy[i] = -adRes[i].getADValue(param)
sensitivityRightHandSide(s, param, j) == 0 - s.adRes[param][j]

\* The coupling rows of direction param set up and solved
sensitivityCoupling(s, param) ==
    solveCouplingDOF(s, [j \in DOMAIN s.sensY[param] |->
                            IF j >= finalOffset(s) THEN sensitivityRightHandSide(s, param, j)
                            ELSE s.sensY[param][j]])

\* -(d^2 res_con / (dy dp)) * yDot on the coupling rows of direction param,
\* then solved
sensitivityDotCoupling(s, param) ==
    solveCouplingDOF(s, [j \in DOMAIN s.sensYdot[param] |->
                            IF j >= finalOffset(s)
                            THEN 0 - s.connSens * multiplySubtractRow(s, s.yDot, j - finalOffset(s))
                            ELSE s.sensYdot[param][j]])

ConsistentInitialSensitivity(lean, s0, nSens, k, dk) ==
    /\ sys.pc = "idle"
    /\ sys' = sensitivityAtEntry(lean, s0, nSens, k, dk)
    /\ UNCHANGED unitVars

SensitivityWithoutInlet ==
    /\ sys.pc = "sensitivity"
    /\ sys.i1 < sys.nModels
    /\ sys' = IF ~sys.hasInlet[sys.i1]
              THEN [sys EXCEPT !.i1 = @ + 1, !.sensYdot = unitSensitivity(sys, sys.i1),
                               !.log = Append(@, sensitivityCall(sys, sys.i1))]
              ELSE [sys EXCEPT !.i1 = @ + 1]
    /\ UNCHANGED unitVars

CouplingOfSensitivity ==
    /\ sys.pc = "sensitivity"
    /\ sys.i1 = sys.nModels
    /\ sys.p1 < sys.nSens
    /\ sys' = [sys EXCEPT !.p1 = @ + 1, !.sensY[sys.p1] = sensitivityCoupling(sys, sys.p1),
                          !.log = Append(@, [ev |-> "solveCouplingDOF", arg |-> sys.p1,
                                             seen |-> <<>>])]
    /\ UNCHANGED unitVars

SensitivityWithInlet ==
    /\ sys.pc = "sensitivity"
    /\ sys.i1 = sys.nModels
    /\ sys.p1 = sys.nSens
    /\ sys.i2 < sys.nModels
    /\ sys' = IF sys.hasInlet[sys.i2]
              THEN [sys EXCEPT !.i2 = @ + 1, !.sensYdot = unitSensitivity(sys, sys.i2),
                               !.log = Append(@, sensitivityCall(sys, sys.i2))]
              ELSE [sys EXCEPT !.i2 = @ + 1]
    /\ UNCHANGED unitVars

CouplingOfSensitivityDot ==
    /\ sys.pc = "sensitivity"
    /\ sys.i2 = sys.nModels
    /\ sys.p2 < sys.nSens
    /\ sys' = [sys EXCEPT !.p2 = @ + 1,
                          !.sensYdot[sys.p2] = sensitivityDotCoupling(sys, sys.p2)]
    /\ UNCHANGED unitVars

\* ------------------------------------------------------ initial conditions
\* readInitialCondition: INIT_STATE_Y and INIT_STATE_YDOT as far as present
\* (an absent field leaves the vector empty)
ReadInitialCondition(s0, initState, initStateDot) ==
    /\ sys.pc = "idle"
    /\ sys' = [pc |-> "read", nModels |-> s0.nModels, nComp |-> s0.nComp, nPorts |-> s0.nPorts,
               hasInlet |-> s0.hasInlet, conn |-> s0.conn,
               initState |-> initState, initStateDot |-> initStateDot,
               y |-> stateAtEntry(s0),
               yDot |-> [j \in 0..(systemNumDofs(s0) - 1) |-> DotGuess],
               applied |-> <<>>]
    /\ UNCHANGED unitVars

fullStateAvailableLonger(s) == Len(s.initState) > systemNumDofs(s)

\* _initState.size() >= numDofs()
fullStateAvailable(s) == Len(s.initState) >= systemNumDofs(s)

\* _initStateDot.size() >= numDofs()
fullStateDotAvailable(s) == Len(s.initStateDot) >= systemNumDofs(s)

\* std::copy of the first numDofs() entries
copyOfFirst(s, values) == [j \in 0..(systemNumDofs(s) - 1) |-> values[j + 1]]

UnitInitialValue == 30

\* The unit's own applyInitialCondition: it fills its part of the state vector
unitApplyInitialCondition(s, vec, i) ==
    [j \in DOMAIN vec |->
        IF j >= dofOffset(s, i) /\ j < dofOffset(s, i + 1)
        THEN UnitInitialValue + (j - dofOffset(s, i)) ELSE vec[j]]

RECURSIVE unitsApplyInitialCondition(_, _, _)
unitsApplyInitialCondition(s, vec, i) ==
    IF i = s.nModels THEN vec
    ELSE unitsApplyInitialCondition(s, unitApplyInitialCondition(s, vec, i), i + 1)

ApplyInitialCondition ==
    /\ sys.pc = "read"
    /\ sys' = IF fullStateAvailable(sys)
              THEN [sys EXCEPT !.pc = "applied",
                               !.y = copyOfFirst(sys, sys.initState),
                               !.yDot = IF fullStateDotAvailable(sys)
                                        THEN copyOfFirst(sys, sys.initStateDot) ELSE @]
              ELSE [sys EXCEPT !.pc = "applied",
                               !.y = unitsApplyInitialCondition(sys, @, 0),
                               !.applied = [k \in 1..sys.nModels |->
                                               [unit |-> k - 1, offset |-> dofOffset(sys, k - 1)]]]
    /\ UNCHANGED unitVars

\* ------------------------------------------------------ system inputs
SystemLayouts ==
    UNION {{systemLayout(n, nComp, nPorts, hasInlet, recycle) :
               hasInlet \in [0..(n - 1) -> BOOLEAN]} :
              n \in 1..MaxUnits, nComp \in {1, MaxUnitComp}, nPorts \in {1, MaxInletPorts},
              recycle \in BOOLEAN}

\* A vector whose coupling DOFs hold right-hand sides k, 2k, ...
vectorWithRightHandSide(s0, k) ==
    [j \in 0..(systemNumDofs(s0) - 1) |->
        IF j >= finalOffset(s0) THEN k * (j - finalOffset(s0) + 1) ELSE stateAtEntry(s0)[j]]

CouplingSolve ==
    \E s0 \in SystemLayouts, k \in {0, 100} :
        SolveCouplingDOF(s0, vectorWithRightHandSide(s0, k))

\* A full-state vector of the given length
fullStateVector(len, first) == [k \in 1..len |-> first + k]

VectorLengths(s0) == {0, systemNumDofs(s0) - 1, systemNumDofs(s0), systemNumDofs(s0) + 1}

InitialConditionRead ==
    \E s0 \in SystemLayouts :
        \E lenY \in VectorLengths(s0), lenYdot \in VectorLengths(s0) :
            ReadInitialCondition(s0, fullStateVector(lenY, 50), fullStateVector(lenYdot, 70))

StartSensitivity ==
    \E lean \in BOOLEAN, s0 \in SystemLayouts, nSens \in {1, MaxSensDirs}, k \in {0, 1},
       dk \in {0, 1} :
        ConsistentInitialSensitivity(lean, s0, nSens, k, dk)

StartInitialization ==
    \E lean \in BOOLEAN, s0 \in SystemLayouts : ConsistentInitialConditions(lean, s0)

ResidualStatuses == {-1, 0, 1}

ResidualWithJacobian == \E status \in ResidualStatuses, r \in {0, 1} : ResidualPhase(status, r)

\* ------------------------------------------------------- parameter inputs
\* The first and the last section
Sections == {0, MaxSection}

Directions == {-1, 1}

\* Discretizations with one shell count and one bound state per component
PlainDiscInputs ==
    {DiscInput(nComp, nCol, [hasNPARTYPE |-> TRUE, NPARTYPE |-> nParType], <<2>>,
               [c \in 1..nComp |-> 1],
               [optimizeSurfDiffusion |-> FALSE, hasSurfDiff |-> FALSE, surfDiff |-> <<>>]) :
        nComp \in 1..MaxComp, nCol \in 1..MaxCol, nParType \in 1..MaxParType}

VolFracInputs(d) ==
    IF d.nParType = 1
    THEN {[hasVolFrac |-> FALSE, volFrac |-> <<>>]}
    ELSE {[hasVolFrac |-> TRUE,
           volFrac |-> [t \in 1..d.nParType |->
                          IF t = 1 THEN Rat(4 - (d.nParType - 1) * q, 4) ELSE Rat(q, 4)]] :
             q \in 1..(IF d.nParType = 2 THEN 2 ELSE 1)}

\* FILM_DIFFUSION for one section, or for every section with a value that
\* grows with the section
FilmDiffusionInputs(d) ==
    LET n == d.nComp * d.nParType
    IN  {[i \in 0..(n - 1) |-> RatInt(1)],
         [i \in 0..(n * (MaxSection + 1) - 1) |-> RatInt(1 + (i \div n))]}

\* PORE_ACCESSIBILITY absent (all factors 1) or given with a different factor
\* for every component and particle type
PoreAccessInputs(d) ==
    {[i \in 0..(d.nComp * d.nParType - 1) |-> RatInt(1)],
     [i \in 0..(d.nComp * d.nParType - 1) |-> Rat(1, i + 1)]}

\* reactionQuasiStationarity() of the binding model of every particle type:
\* no bound state, every bound state, or the first bound state only is
\* quasi-stationary
BindingInputs(d) ==
    {[t \in 0..(d.nParType - 1) |-> [bnd \in 0..(d.strideBound[t] - 1) |-> FALSE]],
     [t \in 0..(d.nParType - 1) |-> [bnd \in 0..(d.strideBound[t] - 1) |-> TRUE]],
     [t \in 0..(d.nParType - 1) |-> [bnd \in 0..(d.strideBound[t] - 1) |-> bnd = 0]]}

\* Every sub-configuration of configure succeeding
AllConfigure ==
    [transportConfOk |-> TRUE, bindingConfFails |-> {}, bulkConfOk |-> TRUE,
     reactionConfFails |-> {}]

\* The parameter set read by configure; PAR_SURFDIFFUSION is the field that
\* configureModelDiscretization has seen
ParamInput(d, vf, fd, pd, pa, qs) ==
    [colPorosity |-> Half, colLength |-> 2,
     parRadius |-> [t \in 0..(d.nParType - 1) |-> RatInt(t + 1)],
     parPorosity |-> [t \in 0..(d.nParType - 1) |-> Rat(1, t + 2)],
     hasCoreRadius |-> FALSE, parCoreRadius |-> <<>>,
     hasVolFrac |-> vf.hasVolFrac, volFrac |-> vf.volFrac,
     volFracDev |-> [t \in DOMAIN vf.volFrac |-> 0],
     filmDiffusion |-> fd,
     parDiffusion |-> pd,
     hasSurfDiff |-> provider.hasSurfDiff, surfDiff |-> provider.surfDiff,
     poreAccessFactor |-> pa,
     qsReaction |-> qs,
     plugins |-> AllConfigure]

\* Parameter sets that differ in the volume fractions, in the film diffusion
\* or in the pore accessibility
ParamInputs(d) ==
    LET vf0 == CHOOSE vf \in VolFracInputs(d) : TRUE
        fd0 == [i \in 0..(d.nComp * d.nParType - 1) |-> RatInt(1)]
        pa0 == [i \in 0..(d.nComp * d.nParType - 1) |-> RatInt(1)]
    IN  {ParamInput(d, x[1], x[2], [i \in 0..(d.nComp * d.nParType - 1) |-> RatInt(1)], x[3],
                    [t \in 0..(d.nParType - 1) |->
                        [bnd \in 0..(d.strideBound[t] - 1) |-> FALSE]]) :
            x \in {<<vf, fd0, pa0>> : vf \in VolFracInputs(d)}
                     \cup {<<vf0, fd, pa0>> : fd \in FilmDiffusionInputs(d)}
                     \cup {<<vf0, fd0, pa>> : pa \in PoreAccessInputs(d)}}

\* configure after a discretization that returned true, with the
\* sub-configurations F failing
ConfigurePluginParams ==
    /\ pc = "discretized"
    /\ lastOp.result
    /\ \E F \in FewOf(SubConfigurations) :
          LET last == disc.nParType - 1
              pin0 == ParamInput(disc, CHOOSE vf \in VolFracInputs(disc) : TRUE,
                                 [i \in 0..(disc.nComp * disc.nParType - 1) |-> RatInt(1)],
                                 [i \in 0..(disc.nComp * disc.nParType - 1) |-> RatInt(1)],
                                 [i \in 0..(disc.nComp * disc.nParType - 1) |-> RatInt(1)],
                                 [t \in 0..last |-> [bnd \in 0..(disc.strideBound[t] - 1) |-> FALSE]])
          IN  Configure([pin0 EXCEPT !.plugins =
                            [transportConfOk |-> "transport" \notin F,
                             bindingConfFails |-> TypesNamed(F, "binding0", "bindingLast", last),
                             bulkConfOk |-> "bulk" \notin F,
                             reactionConfFails |-> TypesNamed(F, "reaction0", "reactionLast", last)]])

\* One component with one bound state and surface diffusion, two shells per
\* particle, and as many axial cells and particle types as make at most
\* MaxTasks tasks
ConfigureTasks ==
    /\ pc = "new"
    /\ \E nCol \in 1..MaxCol, nParType \in 1..MaxParType :
          /\ nCol * nParType + 1 <= MaxTasks
          /\ ConfigureModelDiscretization(
                 DiscInput(1, nCol, [hasNPARTYPE |-> TRUE, NPARTYPE |-> nParType], <<2>>, <<1>>,
                           [optimizeSurfDiffusion |-> FALSE, hasSurfDiff |-> TRUE,
                            surfDiff |-> [k \in 0..(nParType - 1) |-> k + 1]]))

ConfigureTaskParams ==
    /\ pc = "discretized"
    /\ Configure(ParamInput(disc, CHOOSE vf \in VolFracInputs(disc) : TRUE,
                            [i \in 0..(disc.nComp * disc.nParType - 1) |-> RatInt(i + 1)],
                            [i \in 0..(disc.nComp * disc.nParType - 1) |-> RatInt(i + 2)],
                            [i \in 0..(disc.nComp * disc.nParType - 1) |-> Rat(1, i + 1)],
                            [t \in 0..(disc.nParType - 1) |->
                                [bnd \in 0..(disc.strideBound[t] - 1) |-> FALSE]]))

\* The flow rate is set and the simulation enters its first section before
\* any residual is asked for
StartFlow ==
    /\ conv.curVelocity = 0
    /\ SetFlowRates(MaxVelocity)

FirstSection ==
    /\ conv.curVelocity # 0
    /\ conv.dir = 0
    /\ NotifyDiscontinuousSectionTransition(0, 1)

ResidualCall ==
    /\ conv.dir # 0
    /\ \E updateJacobian \in BOOLEAN, paramSensitivity \in BOOLEAN, analyticJac \in BOOLEAN :
          Residual(0, updateJacobian, paramSensitivity, analyticJac)

\* x rising over the DOFs with z rising too, or x set on the inlet only
MultiplyInputs(d) ==
    LET dofs == 0..(numDofs(d) - 1)
    IN  {[yS |-> [i \in dofs |-> RatInt(i + 1)], alpha |-> RatInt(2), beta |-> RatInt(3),
          ret |-> [i \in dofs |-> RatInt(i + 2)]],
         [yS |-> [i \in dofs |-> RatInt(i + 1)], alpha |-> RatInt(1), beta |-> RatInt(0),
          ret |-> [i \in dofs |-> RatInt(1)]],
         [yS |-> [i \in dofs |-> RatInt(IF i < d.nComp THEN 1 ELSE 0)], alpha |-> RatInt(-1),
          beta |-> RatInt(1), ret |-> [i \in dofs |-> RatInt(i)]]}

JacobianProduct ==
    /\ pc = "configured"
    /\ conv.dir # 0
    /\ \E in \in MultiplyInputs(disc) : MultiplyWithJacobian(in.yS, in.alpha, in.beta, in.ret)

TakeTask ==
    /\ run.pc = "tasks"
    /\ \E pblk \in run.pending : TaskStart(pblk)

EndTask ==
    /\ run.pc = "tasks"
    /\ \E pblk \in run.running : TaskFinish(pblk)

ConfigurePlain ==
    /\ pc = "new"
    /\ \E in \in PlainDiscInputs : ConfigureModelDiscretization(in)

ConfigureParams ==
    /\ pc = "discretized"
    /\ \E pin \in ParamInputs(disc) : Configure(pin)

SectionTransition ==
    \E secIdx \in Sections, dirNew \in Directions :
        NotifyDiscontinuousSectionTransition(secIdx, dirNew)

FlowRateChange == \E q \in {1, MaxVelocity} : SetFlowRates(q)

VolFracChange ==
    \E type \in {0, MaxParType - 1} : SetParameterParTypeVolFrac(type, Rat(1, 4))

\* Discretizations for the particle Jacobian: one axial cell, one or
\* MaxParType particle types with 1, 2 or MaxParCell shells, every layout with
\* 0, 1 or MaxBound bound states per component, surface diffusion with and
\* without FIX_ZERO_SURFACE_DIFFUSION
JacSurfDiffInputs(n) ==
    {[optimizeSurfDiffusion |-> FALSE, hasSurfDiff |-> TRUE,
      surfDiff |-> [k \in 0..(n - 1) |-> k + 1]],
     [optimizeSurfDiffusion |-> TRUE, hasSurfDiff |-> TRUE,
      surfDiff |-> [k \in 0..(n - 1) |-> k + 1]],
     [optimizeSurfDiffusion |-> TRUE, hasSurfDiff |-> TRUE,
      surfDiff |-> [k \in 0..(n - 1) |-> 0]],
     [optimizeSurfDiffusion |-> TRUE, hasSurfDiff |-> FALSE, surfDiff |-> <<>>]}

ConfigureJac ==
    /\ pc = "new"
    /\ \E nComp \in {1, MaxComp}, nParType \in {1, MaxParType}, nParCell \in {1, 2, MaxParCell} :
          \E nbound \in [1..nComp -> {0, 1, MaxBound}] :
            LET pt == [hasNPARTYPE |-> TRUE, NPARTYPE |-> nParType]
            IN  \E sd \in JacSurfDiffInputs(nTotalBoundOf(nComp, pt, <<nParCell>>, nbound)) :
                  ConfigureModelDiscretization(DiscInput(nComp, 1, pt, <<nParCell>>, nbound, sd))

JacParamInputs(d) ==
    {ParamInput(d, CHOOSE vf \in VolFracInputs(d) : TRUE,
                [i \in 0..(d.nComp * d.nParType - 1) |-> RatInt(1)],
                [i \in 0..(d.nComp * d.nParType - 1) |-> RatInt(i + 1)],
                [i \in 0..(d.nComp * d.nParType - 1) |-> Rat(1, i + 1)],
                qs) : qs \in BindingInputs(d)}

ConfigureJacParams ==
    /\ pc = "discretized"
    /\ \E pin \in JacParamInputs(disc) : Configure(pin)

ResidualEvaluation ==
    /\ pc = "configured"
    /\ \E parType \in {0, MaxParType - 1}, wantJac \in BOOLEAN, checkingBuild \in BOOLEAN :
          ResidualParticle(parType, 0, 0, wantJac, checkingBuild)

\* Discretizations for the geometry and the parameter updates: one component
\* with one bound state, 1 or MaxCol axial cells, 1 or MaxParType particle
\* types with 1 or MaxParCell shells each, PAR_DISC_TYPE given once for all
\* types or per type, PAR_DISC_VECTOR with the interfaces of every type
\* descending from 1 to 0 or ascending strictly inside (0, 1)
ParDiscTypeInputs(nParType) ==
    {<<m>> : m \in {"EQUIDISTANT_PAR", "EQUIVOLUME_PAR", "USER_DEFINED_PAR"}}
        \cup (IF nParType > 1
              THEN {[t \in 1..nParType |-> IF t = nParType THEN "USER_DEFINED_PAR"
                                           ELSE "EQUIVOLUME_PAR"]}
              ELSE {})

ParDiscVectors(nParType, n) ==
    {[i \in 1..(nParType * (n + 1)) |-> Rat(n - ((i - 1) % (n + 1)), n)],
     [i \in 1..(nParType * (n + 1)) |-> Rat(((i - 1) % (n + 1)) + 1, n + 2)]}

GeomDiscInput(nCol, nParType, n, pdt, v) ==
    [DiscInput(1, nCol, [hasNPARTYPE |-> TRUE, NPARTYPE |-> nParType], <<n>>, <<1>>,
               [optimizeSurfDiffusion |-> FALSE, hasSurfDiff |-> FALSE, surfDiff |-> <<>>])
        EXCEPT !.PAR_DISC_TYPE = pdt, !.hasParDiscVector = v # <<>>, !.PAR_DISC_VECTOR = v]

GeomDiscInputs ==
    UNION {{GeomDiscInput(nCol, nParType, n, pdt, v) :
               v \in IF \E k \in DOMAIN pdt : pdt[k] = "USER_DEFINED_PAR"
                     THEN ParDiscVectors(nParType, n) ELSE {<<>>}} :
           nCol \in {1, MaxCol}, nParType \in {1, MaxParType}, n \in {1, MaxParCell},
           pdt \in UNION {ParDiscTypeInputs(k) : k \in {1, MaxParType}}}

\* PAR_RADIUS and PAR_CORERADIUS: one value for all types or one per type,
\* PAR_CORERADIUS possibly missing
RadiusInputs(d) ==
    {[parRadius |-> r, hasCoreRadius |-> c # <<>>, parCoreRadius |-> c] :
        r \in {[t \in 0..0 |-> RatInt(2)], [t \in 0..(d.nParType - 1) |-> RatInt(t + 2)]},
        c \in {<<>>, [t \in 0..0 |-> RatInt(1)], [t \in 0..(d.nParType - 1) |-> Rat(t + 1, 2)]}}

\* PAR_TYPE_VOLFRAC with one entry of 3/4 or 1/2 and the others sharing the
\* rest: per type or per axial cell and type, as multiples of 1/4 or with
\* the first entry of the last cell off by dev steps and the last entry by
\* back steps; with the last cell summing to 5/4; with one entry too many;
\* or missing
GeomVolFracInputs(d) ==
    LET T == d.nParType
        frac(t) == IF T = 1 THEN RatInt(1)
                   ELSE IF t = 0 THEN Rat(4 - (T - 1), 4) ELSE Rat(1, 4)
        devs(len, dev, back) ==
            [i \in 1..len |-> (IF i = len - T + 1 THEN dev ELSE 0)
                                + (IF i = len THEN back ELSE 0)]
        DevPairs == {<<0, 0>>, <<VolFracTolerance, 0>>, <<VolFracTolerance + 1, 0>>,
                     <<0, -VolFracTolerance>>, <<0, -(VolFracTolerance + 1)>>,
                     <<VolFracTolerance + 1, -1>>}
    IN  {[hasVolFrac |-> TRUE, volFrac |-> [i \in 1..len |-> frac((i - 1) % T)],
          volFracDev |-> devs(len, x[1], x[2])] :
            len \in {T, T * d.nCol}, x \in DevPairs}
          \cup {[hasVolFrac |-> TRUE,
                 volFrac |-> [i \in 1..len |-> IF i = len THEN RatAdd(frac((i - 1) % T), Rat(1, 4))
                                               ELSE frac((i - 1) % T)],
                 volFracDev |-> [i \in 1..len |-> 0]] : len \in {T, T * d.nCol, T * d.nCol + 1}}
          \cup {[hasVolFrac |-> FALSE, volFrac |-> <<>>, volFracDev |-> <<>>]}

GeomParamInput(d, r, vf) ==
    [colPorosity |-> Half, colLength |-> 2,
     parRadius |-> r.parRadius,
     parPorosity |-> [t \in 0..(d.nParType - 1) |-> Rat(1, t + 2)],
     hasCoreRadius |-> r.hasCoreRadius, parCoreRadius |-> r.parCoreRadius,
     hasVolFrac |-> vf.hasVolFrac, volFrac |-> vf.volFrac, volFracDev |-> vf.volFracDev,
     filmDiffusion |-> [i \in 0..(d.nComp * d.nParType - 1) |-> RatInt(1)],
     parDiffusion |-> [i \in 0..(d.nComp * d.nParType - 1) |-> RatInt(1)],
     hasSurfDiff |-> provider.hasSurfDiff, surfDiff |-> provider.surfDiff,
     poreAccessFactor |-> [i \in 0..(d.nComp * d.nParType - 1) |-> RatInt(1)],
     qsReaction |-> [t \in 0..(d.nParType - 1) |->
                       [bnd \in 0..(d.strideBound[t] - 1) |-> FALSE]],
     plugins |-> AllConfigure]

\* Parameter sets that differ in the radii or in the volume fractions
GeomParamInputs(d) ==
    LET r0 == [parRadius |-> [t \in 0..(d.nParType - 1) |-> RatInt(t + 2)],
               hasCoreRadius |-> TRUE,
               parCoreRadius |-> [t \in 0..(d.nParType - 1) |-> Rat(t + 1, 2)]]
        vf0 == [hasVolFrac |-> TRUE,
                volFrac |-> [i \in 1..d.nParType |->
                               IF d.nParType = 1 THEN RatInt(1)
                               ELSE IF i = 1 THEN Rat(4 - (d.nParType - 1), 4) ELSE Rat(1, 4)],
                volFracDev |-> [i \in 1..d.nParType |-> 0]]
    IN  {GeomParamInput(d, r, vf0) : r \in RadiusInputs(d)}
          \cup {GeomParamInput(d, r0, vf) : vf \in GeomVolFracInputs(d)}

ConfigureGeom ==
    /\ pc = "new"
    /\ \E in \in GeomDiscInputs : ConfigureModelDiscretization(in)

ConfigureGeomParams ==
    /\ pc = "discretized"
    /\ \E pin \in GeomParamInputs(disc) : Configure(pin)

\* Discretizations for the parameter updates: 1 or MaxCol axial cells, 1 or
\* MaxParType particle types, two equidistant shells
UpdateDiscInputs ==
    {GeomDiscInput(nCol, nParType, 2, <<"EQUIDISTANT_PAR">>, <<>>) :
        nCol \in {1, MaxCol}, nParType \in {1, MaxParType}}

\* Accepted parameter sets: the radii given once or per type, the volume
\* fractions per type or per axial cell and type
UpdateParamInputs(d) ==
    {GeomParamInput(d, r, vf) :
        r \in {x \in RadiusInputs(d) :
                 x.hasCoreRadius /\ DOMAIN x.parRadius = DOMAIN x.parCoreRadius},
        vf \in {x \in GeomVolFracInputs(d) :
                  /\ x.hasVolFrac
                  /\ \A i \in DOMAIN x.volFracDev : x.volFracDev[i] = 0
                  /\ Len(x.volFrac) \in {d.nParType, d.nParType * d.nCol}}}

ConfigureForUpdates ==
    /\ pc = "new"
    /\ \E in \in UpdateDiscInputs : ConfigureModelDiscretization(in)

ConfigureParamsForUpdates ==
    /\ pc = "discretized"
    /\ \E pin \in UpdateParamInputs(disc) : Configure(pin)

\* The parameter ids the setters are called with: the volume fraction of the
\* first particle type, globally or in the last axial cell, and the radius
\* and core radius of all types or of the last of MaxParType types
UpdateIds ==
    {[name |-> "PAR_TYPE_VOLFRAC", particleType |-> 0, section |-> sec] :
        sec \in {SectionIndep, MaxCol - 1}}
      \cup {[name |-> n, particleType |-> t, section |-> SectionIndep] :
              n \in {"PAR_RADIUS", "PAR_CORERADIUS"}, t \in {ParTypeIndep, MaxParType - 1}}

\* The value a parameter is set to
UpdateValue(pId) ==
    IF pId.name = "PAR_TYPE_VOLFRAC" THEN Half
    ELSE IF pId.name = "PAR_RADIUS" THEN RatInt(MaxParType + 2)
    ELSE Rat(3, 2)

ParameterUpdate == \E pId \in UpdateIds : SetParameter(pId, UpdateValue(pId))

SensitiveParameterUpdate ==
    \E pId \in UpdateIds : SetSensitiveParameterValue(pId, UpdateValue(pId))

SensitiveParameterRegistration ==
    /\ pc = "configured"
    /\ Cardinality(par.sensParams) < MaxSensParams
    /\ \E pId \in UpdateIds : SetSensitiveParameter(pId)

\* Discretizations for the multiplication with the time derivative
\* Jacobian: 1 or MaxCol axial cells, 1 or MaxParType particle types with 1
\* or MaxParCell shells, every layout with 0, 1 or MaxBound bound states per
\* component
ConfigureMul ==
    /\ pc = "new"
    /\ \E nComp \in {1, MaxComp}, nCol \in {1, MaxCol}, nParType \in {1, MaxParType},
          nParCell \in {1, MaxParCell} :
          \E nbound \in [1..nComp -> {0, 1, MaxBound}] :
              ConfigureModelDiscretization(
                  DiscInput(nComp, nCol, [hasNPARTYPE |-> TRUE, NPARTYPE |-> nParType],
                            <<nParCell>>, nbound,
                            [optimizeSurfDiffusion |-> FALSE, hasSurfDiff |-> FALSE,
                             surfDiff |-> <<>>]))

ConfigureMulParams ==
    /\ pc = "discretized"
    /\ \E pin \in JacParamInputs(disc) : Configure(pin)

\* The vector multiplied: all entries 1, or entry i being i + 1; the result
\* vector holds -1 everywhere before the call
DerivativeMultiplication ==
    /\ pc = "configured"
    /\ \E sDot \in {[i \in 0..(numDofs(disc) - 1) |-> RatInt(1)],
                    [i \in 0..(numDofs(disc) - 1) |-> RatInt(i + 1)]} :
          MultiplyWithDerivativeJacobian(sDot, [i \in 0..(numDofs(disc) - 1) |-> RatInt(-1)])

Next == ConfigureAny

Spec == Init /\ [][Next]_vars

NextSec ==
    \/ ConfigurePlain
    \/ ConfigureParams
    \/ SectionTransition
    \/ FlowRateChange
    \/ VolFracChange

\* Configuration followed by flow rate changes, parameter updates and
\* section transitions in any order
SpecSec == Init /\ [][NextSec]_vars

NextJac ==
    \/ ConfigureJac
    \/ ConfigureJacParams
    \/ ResidualEvaluation

\* Configuration followed by residual evaluations of the particle blocks
SpecJac == Init /\ [][NextJac]_vars

NextMul ==
    \/ ConfigureMul
    \/ ConfigureMulParams
    \/ DerivativeMultiplication

\* Configuration followed by multiplications with the time derivative Jacobian
SpecMul == Init /\ [][NextMul]_vars

NextGeom ==
    \/ ConfigureGeom
    \/ ConfigureGeomParams

\* Configuration of the particle geometry and the parameters
SpecGeom == Init /\ [][NextGeom]_vars

NextPar ==
    \/ ConfigureForUpdates
    \/ ConfigureParamsForUpdates
    \/ ParameterUpdate
    \/ SensitiveParameterUpdate
    \/ SensitiveParameterRegistration

\* Configuration followed by parameter updates in any order
SpecPar == Init /\ [][NextPar]_vars

NextInit ==
    \/ StartInitialization
    \/ StateWithoutInlet
    \/ CouplingOfState
    \/ StateWithInlet
    \/ ResidualWithJacobian
    \/ TimeDerivative
    \/ CouplingOfTimeDerivative

SpecInit == Init /\ [][NextInit]_vars

NextSens ==
    \/ StartSensitivity
    \/ SensitivityWithoutInlet
    \/ CouplingOfSensitivity
    \/ SensitivityWithInlet
    \/ CouplingOfSensitivityDot

SpecSens == Init /\ [][NextSens]_vars

NextApply ==
    \/ InitialConditionRead
    \/ ApplyInitialCondition

SpecApply == Init /\ [][NextApply]_vars

NextDisc == ConfigureSizes

SpecDisc == Init /\ [][NextDisc]_vars

NextPlug ==
    \/ ConfigurePlugins
    \/ ConfigurePluginParams

SpecPlug == Init /\ [][NextPlug]_vars

NextRes ==
    \/ ConfigureTasks
    \/ ConfigureTaskParams
    \/ StartFlow
    \/ FirstSection
    \/ ResidualCall
    \/ JacobianProduct
    \/ TakeTask
    \/ EndTask
    \/ AfterTasks

\* Residual evaluations and Jacobian products with their tasks run by any
\* number of threads
SpecRes == Init /\ [][NextRes]_vars

NextCoupling == CouplingSolve

SpecCoupling == Init /\ [][NextCoupling]_vars

\* ======================================================== properties
\* The sum of f over the finite set S
RECURSIVE SumOver(_, _)
SumOver(S, f) ==
    IF S = {} THEN 0
    ELSE LET x == CHOOSE y \in S : TRUE IN f[x] + SumOver(S \ {x}, f)

Types(d) == 0..(d.nParType - 1)

Comps(d) == 0..(d.nComp - 1)

\* C1: numDofs() is nComp + nCol*nComp + parTypeOffset[nParType] + nCol*nComp*nParType,
\* where parTypeOffset[nParType] is the sum over the particle types t of
\* (nComp + strideBound[t]) * nParCell[t] * nCol, and numPureDofs() is numDofs() - nComp
InvC1_NumDofsClosedForm ==
    Configured =>
        /\ numDofs(disc) = disc.nComp + disc.nCol * disc.nComp
                              + disc.parTypeOffset[disc.nParType]
                              + disc.nCol * disc.nComp * disc.nParType
        /\ disc.parTypeOffset[disc.nParType]
              = SumOver(Types(disc), [t \in Types(disc) |->
                    (disc.nComp + disc.strideBound[t]) * disc.nParCell[t] * disc.nCol])
        /\ numPureDofs(disc) = numDofs(disc) - disc.nComp

WitC1_TwoTypesConfigured ==
    /\ pc = "discretized"
    /\ disc.nParType = 2 /\ disc.nCol = 2 /\ disc.nComp = 2
    /\ disc.strideBound[0] # disc.strideBound[1]
    /\ disc.nParCell[0] # disc.nParCell[1]

\* The (type, cell, shell, entry) tuples of the particle DOFs; entry i < nComp is
\* component i, entry nComp + boundOffset[t,c] + b is bound state b of component c
ShellEntries(d, t) ==
    {[kind |-> "c", c |-> c, b |-> 0] : c \in Comps(d)}
        \cup UNION {{[kind |-> "q", c |-> c, b |-> b] : b \in 0..(d.nBound[t * d.nComp + c] - 1)} :
                      c \in Comps(d)}

ValidTuples(d) ==
    UNION {{[t |-> t, k |-> k, s |-> s, e |-> e] :
               k \in 0..(d.nCol - 1), s \in 0..(d.nParCell[t] - 1), e \in ShellEntries(d, t)} :
             t \in Types(d)}

\* The linear DOF offset of a tuple
TupleOffset(d, x) ==
    d.nComp + d.nCol * d.nComp + d.parTypeOffset[x.t]
        + x.k * d.nParCell[x.t] * (d.nComp + d.strideBound[x.t])
        + x.s * (d.nComp + d.strideBound[x.t])
        + (IF x.e.kind = "c" THEN x.e.c
           ELSE d.nComp + d.boundOffset[x.t * d.nComp + x.e.c] + x.e.b)

InletRange(d) == 0..(offsetC(d) - 1)

BulkRange(d) == offsetC(d)..(offsetC(d) + d.nCol * d.nComp - 1)

ParticleRange(d) == offsetCpType(d, 0)..(offsetJf(d) - 1)

FluxRange(d) == offsetJf(d)..(offsetJf(d) + d.nCol * d.nComp * d.nParType - 1)

\* C2: every valid tuple maps into [0, numDofs()), distinct tuples map to
\* distinct offsets, and the inlet, bulk, particle and flux ranges are pairwise
\* disjoint and together cover [0, numDofs())
InvC2_IndexerInjective ==
    Configured =>
      LET tuples == ValidTuples(disc)
          offsets == {TupleOffset(disc, x) : x \in tuples}
      IN
        /\ \A x \in tuples :
              TupleOffset(disc, x) = offsetCp(disc, x.t, x.k) + x.s * strideParShell(disc, x.t)
                    + (IF x.e.kind = "c" THEN x.e.c
                       ELSE strideParLiquid(disc) + offsetBoundComp(disc, x.t, x.e.c) + x.e.b)
        /\ offsets \subseteq 0..(numDofs(disc) - 1)
        /\ Cardinality(offsets) = Cardinality(tuples)
        /\ InletRange(disc) \cap BulkRange(disc) = {}
        /\ InletRange(disc) \cap ParticleRange(disc) = {}
        /\ InletRange(disc) \cap FluxRange(disc) = {}
        /\ BulkRange(disc) \cap ParticleRange(disc) = {}
        /\ BulkRange(disc) \cap FluxRange(disc) = {}
        /\ ParticleRange(disc) \cap FluxRange(disc) = {}
        /\ InletRange(disc) \cup BulkRange(disc) \cup ParticleRange(disc) \cup FluxRange(disc)
              = 0..(numDofs(disc) - 1)
        /\ offsets = ParticleRange(disc)

WitC2_MixedLayout ==
    /\ pc = "discretized"
    /\ disc.nParType = 2 /\ disc.nCol = 2 /\ disc.nComp = 2
    /\ disc.nBound[0] = 2 /\ disc.nBound[1] = 0 /\ disc.nBound[3] = 1
    /\ disc.nParCell[0] = 3 /\ disc.nParCell[1] = 2

\* C3: strideBound[t] is the sum of nBound[t,c] over c, boundOffset[t,c] the sum
\* of nBound[t,c'] over c' < c, nBoundBeforeType[t] the sum of strideBound[t']
\* over t' < t, and strideBound[nParType] the total number of bound states,
\* with NBOUND given per type or multiplexed from nComp entries
InvC3_BoundStateOffsets ==
    Configured =>
        /\ \A t \in Types(disc) :
              /\ disc.strideBound[t]
                    = SumOver(Comps(disc), [c \in Comps(disc) |-> disc.nBound[t * disc.nComp + c]])
              /\ disc.nBoundBeforeType[t]
                    = SumOver(0..(t - 1), [u \in 0..(t - 1) |-> disc.strideBound[u]])
              /\ \A c \in Comps(disc) :
                    disc.boundOffset[t * disc.nComp + c]
                       = SumOver(0..(c - 1), [e \in 0..(c - 1) |-> disc.nBound[t * disc.nComp + e]])
              /\ \A c \in Comps(disc) :
                    disc.nBound[t * disc.nComp + c]
                       = IF Len(provider.NBOUND) < disc.nComp * disc.nParType
                         THEN provider.NBOUND[c + 1]
                         ELSE provider.NBOUND[t * disc.nComp + c + 1]
        /\ disc.strideBound[disc.nParType]
              = SumOver(0..(disc.nComp * disc.nParType - 1), disc.nBound)

WitC3_MultiplexedBound ==
    /\ pc = "discretized"
    /\ disc.nParType = 2 /\ disc.nComp = 2
    /\ Len(provider.NBOUND) = 2
    /\ disc.nBound[2] = 1 /\ disc.nBound[3] = 2
    /\ disc.nBoundBeforeType[1] = 3

NotifiedNow == Configured /\ lastOp.op = "notifyDiscontinuousSectionTransition"

InletEntries == {jacInlet[i] : i \in DOMAIN jacInlet}

\* C4: when the inlet mapping is rebuilt for velocity u and h = L/nCol, it has
\* exactly nComp entries: for u >= 0 inlet DOF c -> bulk row c with -u/h, for
\* u < 0 inlet DOF c -> bulk row (nCol-1)*nComp + c with u/h, and nothing else
InvC4_InletMappingRebuilt ==
    (NotifiedNow /\ lastOp.rebuilt) =>
        /\ Len(jacInlet) = disc.nComp
        /\ InletEntries =
              {[row |-> IF conv.curVelocity >= 0 THEN c ELSE (disc.nCol - 1) * disc.nComp + c,
                col |-> c,
                val |-> IF conv.curVelocity >= 0
                        THEN Rat(-conv.curVelocity * disc.nCol, conv.colLength)
                        ELSE Rat(conv.curVelocity * disc.nCol, conv.colLength)] :
                 c \in Comps(disc)}

WitC4_RebuiltForwardAfterBackward ==
    /\ NotifiedNow /\ lastOp.rebuilt
    /\ lastOp.uBefore < 0 /\ conv.curVelocity = 1
    /\ disc.nCol = 2 /\ disc.nComp = 2

FlowReversedNow == NotifiedNow /\ lastOp.uBefore >= 0 /\ conv.curVelocity < 0

\* C5 as stated: after a transition whose velocity flipped from non-negative to
\* negative every inlet DOF is mapped into the last bulk cell with coefficient |u|/h
OrigC5_ReversalCoefficientAbs ==
    FlowReversedNow =>
        /\ Len(jacInlet) = disc.nComp
        /\ \A e \in InletEntries :
              /\ e.row = (disc.nCol - 1) * disc.nComp + e.col
              /\ e.val = Rat(Abs(conv.curVelocity) * disc.nCol, conv.colLength)

\* C5 amended: after a transition whose velocity flipped from non-negative to
\* negative every inlet DOF is mapped into the last bulk cell (not the first)
\* with coefficient u/h, which is -|u|/h
InvC5_ReversalCoefficientSigned ==
    FlowReversedNow =>
        /\ Len(jacInlet) = disc.nComp
        /\ {e.col : e \in InletEntries} = Comps(disc)
        /\ \A e \in InletEntries :
              /\ e.row = (disc.nCol - 1) * disc.nComp + e.col
              /\ e.val = Rat(-Abs(conv.curVelocity) * disc.nCol, conv.colLength)

WitC5_FlowReversed ==
    /\ FlowReversedNow
    /\ lastOp.uBefore = 2 /\ conv.curVelocity = -2
    /\ disc.nCol = 2 /\ disc.nComp = 2

\* C6: after every notifyDiscontinuousSectionTransition(t, secIdx) the
\* off-diagonal blocks hold the coefficients of the parameters of section
\* secIdx and _jacInlet the mapping of the current velocity
InvC6_CouplingNeverStale ==
    NotifiedNow =>
        /\ offdiag = assembleOffdiagJac(disc, par, lastOp.secIdx)
        /\ jacInlet = inletMapping(disc, conv.curVelocity, conv.colLength)

\* C10: the assembled J_pf couples row c of the outer shell of block (t,k) to
\* flux DOF (t,k,c) with -(a_out[t]/eps_p[t]) / F_acc[t,c], the factor
\* residualFlux applies to that row
InvC10_JacPFUsesTypeAccessFactor ==
    (NotifiedNow /\ lastOp.assembled) =>
        \A t \in Types(disc), k \in 0..(disc.nCol - 1), c \in Comps(disc) :
            LET blk == offdiag.jacPF[t * disc.nCol + k]
                aOut == par.geometry[disc.nParCellsBeforeType[t]].outerSurfAreaPerVolume
                coeff == RatDiv(RatNeg(RatDiv(aOut, par.parPorosity[t])),
                                par.poreAccessFactor[t * disc.nComp + c])
            IN  /\ Len(blk) = disc.nComp
                /\ \E i \in DOMAIN blk :
                      /\ blk[i].row = c
                      /\ blk[i].col = (t * disc.nCol + k) * disc.nComp + c
                      /\ blk[i].val = coeff
                      /\ blk[i].val = residualFluxPF(disc, par, t, k, c)

ResidualEvaluatedNow == lastOp.op = "residualParticle"

\* The block the last residualParticle call worked on
EvaluatedBlock == jacP[disc.nCol * lastOp.parType + lastOp.colCell]

\* The coefficient of y[row + idx] in the transport part of residual row `row`
\* of the block evaluated last
ResidualDerivative(row, idx) ==
    RatSum({x \in residualTerms(disc, par, hasSurfaceDiffusion, lastOp.secIdx, lastOp.parType) :
               x.row = row /\ x.idx = idx})

\* C7: after a residual evaluation with the analytic Jacobian wanted, every
\* in-band element (row, column) of the block's Jacobian is the derivative of
\* the transport part of residual row `row` with respect to the state of that
\* column, with surface diffusion enabled or disabled
InvC7_AnalyticJacobianIsDerivative ==
    (ResidualEvaluatedNow /\ lastOp.wantJac /\ pc = "configured") =>
        \A row \in 0..(EvaluatedBlock.rows - 1) :
            \A idx \in (-EvaluatedBlock.lowerBandwidth)..EvaluatedBlock.upperBandwidth :
                (row + idx >= 0 /\ row + idx < EvaluatedBlock.rows) =>
                    bandElement(EvaluatedBlock, row, idx) = ResidualDerivative(row, idx)

\* C8: every cursor index residualParticle writes through lies in
\* [-lowerBandwidth, upperBandwidth] of the block, for every bound state layout
InvC8_CursorWritesInBand ==
    (ResidualEvaluatedNow /\ lastOp.wantJac) =>
        \A w \in lastOp.cursor :
            /\ -(disc.nComp + disc.strideBound[lastOp.parType]) <= w.idx
            /\ w.idx <= disc.nComp + disc.strideBound[lastOp.parType]
                          + (IF hasSurfaceDiffusion[lastOp.parType]
                             THEN disc.strideBound[lastOp.parType] ELSE 0)

\* The states of the block evaluated last that residual row `row` depends on
\* through a transport term with a nonzero coefficient
RowDependencies(row) ==
    {x.row + x.idx :
        x \in {y \in residualTerms(disc, par, hasSurfaceDiffusion, lastOp.secIdx, lastOp.parType) :
                 y.row = row /\ y.val # RatInt(0)}}

\* C9: with surface diffusion enabled and state j of a block seeded with
\* direction j mod (p + q + 1), no residual row of the block depends on two
\* distinct states of the block that carry the same AD direction
InvC9_NoSharedAdDirection ==
    (ResidualEvaluatedNow /\ hasSurfaceDiffusion[lastOp.parType]) =>
        \A row \in 0..(EvaluatedBlock.rows - 1) :
            \A j1, j2 \in RowDependencies(row) :
                j1 # j2 => adDirection(EvaluatedBlock, j1) # adDirection(EvaluatedBlock, j2)

\* ------------------------------------------------------------------ C11
ConfigureReturnedNow == lastOp.op = "configure"

\* The entries of PAR_TYPE_VOLFRAC that make up axial cell k: the whole
\* field if it is given per particle type, the k-th run of nParType entries
\* if it is given per axial cell and type
CellEntries(pin, k) ==
    IF Len(pin.volFrac) = disc.nParType THEN 1..disc.nParType
    ELSE (k * disc.nParType + 1)..((k + 1) * disc.nParType)

\* By how much the volume fractions of axial cell k miss 1: the exact part
\* and the number of steps of 5e-11
CellMiss(pin, k) ==
    [exact |-> RatSub(RatSum({[val |-> pin.volFrac[i], i |-> i] : i \in CellEntries(pin, k)}),
                      RatInt(1)),
     steps |-> SumOver(CellEntries(pin, k), pin.volFracDev)]

\* The sum of axial cell k deviates from 1 by more than 1e-10 = 2 steps
CellOffByMoreThanTolerance(pin, k) ==
    CellMiss(pin, k).exact # RatInt(0) \/ Abs(CellMiss(pin, k).steps) > 2

VolFracSizesMatch(pin) ==
    /\ pin.hasVolFrac
    /\ Len(pin.volFrac) \in {disc.nParType, disc.nParType * disc.nCol}

\* C11: configure raises the exception for the sum of PAR_TYPE_VOLFRAC exactly
\* if the volume fractions of some axial cell sum to a value more than 1e-10
\* away from 1, for a field given per type as for a field given per cell and
\* type, and raises nothing if every sum is within 1e-10 of 1
InvC11_VolFracSumGuard ==
    (ConfigureReturnedNow /\ VolFracSizesMatch(lastOp.pin)) =>
        LET off == \E k \in 0..(disc.nCol - 1) : CellOffByMoreThanTolerance(lastOp.pin, k)
        IN  /\ off => lastOp.error = "PAR_TYPE_VOLFRAC_sum"
            /\ ~off => lastOp.error = "none"

\* configure has rejected a field given per cell and type whose first cell
\* sums to 1 and whose last cell is off by one step more than the tolerance
WitC11_LastCellOffByThreeSteps ==
    /\ ConfigureReturnedNow
    /\ VolFracSizesMatch(lastOp.pin)
    /\ disc.nCol > 1
    /\ Len(lastOp.pin.volFrac) = disc.nParType * disc.nCol
    /\ CellMiss(lastOp.pin, 0) = [exact |-> RatInt(0), steps |-> 0]
    /\ CellMiss(lastOp.pin, disc.nCol - 1).exact = RatInt(0)
    /\ Abs(CellMiss(lastOp.pin, disc.nCol - 1).steps) = 3
    /\ lastOp.error = "PAR_TYPE_VOLFRAC_sum"

\* ------------------------------------------------------------------ C12
\* By how much the stored volume fractions of axial cell k miss 1
StoredCellMiss(k) ==
    LET entries == {k * disc.nParType + t : t \in 0..(disc.nParType - 1)}
    IN  [exact |-> RatSub(RatSum({[val |-> par.parTypeVolFrac[i], i |-> i] : i \in entries}),
                          RatInt(1)),
         steps |-> SumOver(entries, par.parTypeVolFracDev)]

\* C12: after a successful configure and any sequence of setParameter and
\* setSensitiveParameterValue calls, the volume fractions of every axial cell
\* sum to 1 within 1e-10
InvC12_VolFracSumsToOne ==
    pc = "configured" =>
        \A k \in 0..(disc.nCol - 1) :
            StoredCellMiss(k).exact = RatInt(0) /\ Abs(StoredCellMiss(k).steps) <= 2

\* ------------------------------------------------------------------ C13
\* C13: whenever setParameter, setSensitiveParameterValue or
\* setSensitiveParameter has returned, the geometry arrays are the ones
\* derived from the stored particle radii and core radii, whether these are
\* given once for all particle types or per type
InvC13_GeometryFollowsRadii ==
    (pc = "configured"
       /\ lastOp.op \in {"setParameter", "setSensitiveParameterValue", "setSensitiveParameter"}) =>
        par.geometry = updateRadialDisc(disc, par.parRadius, par.parCoreRadius)

\* ------------------------------------------------------------------ C14
\* Cube roots are bounded from below in steps of 1 / RootSteps
RootSteps == 16

\* The largest multiple of 1 / RootSteps whose cube is at most c (c >= 0)
RootBelow(c) ==
    LET fits(k) == k * k * k * c.d <= c.n * RootSteps * RootSteps * RootSteps
        RECURSIVE up(_)
        up(k) == IF fits(k + 1) THEN up(k + 1) ELSE k
    IN  Rat(up(0), RootSteps)

\* A rational number below (or equal to) the value of the term x
TermBelow(x) ==
    IF x.cube = RatInt(1) THEN x.coef
    ELSE IF x.coef.n > 0 THEN RatMul(x.coef, RootBelow(x.cube))
    ELSE RatMul(x.coef, RatAdd(RootBelow(x.cube), Rat(1, RootSteps)))

\* a > b, shown by a rational lower bound of a - b that is positive
SurdGreater(a, b) ==
    RatSum({[val |-> TermBelow(x), x |-> x] : x \in SurdSub(a, b)}).n > 0

\* A geometry entry of particle type t as a sum of cube roots
AsSurd(t, x) == IF disc.parDiscType[t] = "Equivolume" THEN x ELSE SurdOf(x)

ShellSize(t, k) == AsSurd(t, par.geometry[disc.nParCellsBeforeType[t] + k].cellSize)

ShellCenter(t, k) == AsSurd(t, par.geometry[disc.nParCellsBeforeType[t] + k].centerRadius)

ShellOuterRadius(t, k) == SurdAdd(ShellCenter(t, k), SurdScale(Half, ShellSize(t, k)))

ShellInnerRadius(t, k) == SurdSub(ShellCenter(t, k), SurdScale(Half, ShellSize(t, k)))

RECURSIVE ShellSizeSum(_, _)
ShellSizeSum(t, k) == IF k = 0 THEN {} ELSE SurdAdd(ShellSizeSum(t, k - 1), ShellSize(t, k - 1))

\* The shells of particle type t tile [R_core, R]
ShellsTile(t) ==
    LET n == disc.nParCell[t]
    IN  /\ ShellOuterRadius(t, 0) = SurdOf(par.parRadius[t])
        /\ ShellInnerRadius(t, n - 1) = SurdOf(par.parCoreRadius[t])
        /\ \A k \in 0..(n - 2) : ShellInnerRadius(t, k) = ShellOuterRadius(t, k + 1)
        /\ ShellSizeSum(t, n) = SurdOf(RatSub(par.parRadius[t], par.parCoreRadius[t]))
        /\ \A k \in 0..(n - 2) : SurdGreater(ShellCenter(t, k), ShellCenter(t, k + 1))

ConfiguredNow == ConfigureReturnedNow /\ pc = "configured"

\* C14: in every discretization mode the shells of a particle type tile
\* [R_core, R]: the outermost shell ends at R, the innermost at R_core,
\* consecutive shells share their interface, the cell sizes sum to
\* R - R_core and parCenterRadius is strictly decreasing
InvC14_ShellsTileParticle ==
    ConfiguredNow => \A t \in 0..(disc.nParType - 1) : ShellsTile(t)

\* ------------------------------------------------------------------ C15
\* The positions of the surface diffusion coefficients of particle type t in
\* PAR_SURFDIFFUSION: strideBound[t] coefficients behind those of the types
\* before t
CoefficientsOfType(t) ==
    {disc.nBoundBeforeType[t] + k : k \in 0..(disc.strideBound[t] - 1)}

\* C15: with FIX_ZERO_SURFACE_DIFFUSION, a particle type with a nonzero
\* surface diffusion coefficient for any bound state of any component has
\* _hasSurfaceDiffusion set (and the extra upper band in its Jacobian
\* blocks); without the option every particle type has it set
InvC15_SurfaceDiffusionKeptIfNonzero ==
    pc = "discretized" =>
        \A t \in 0..(disc.nParType - 1) :
            LET nonzero == /\ provider.hasSurfDiff
                           /\ \E k \in CoefficientsOfType(t) : provider.surfDiff[k] # 0
            IN  /\ (~provider.optimizeSurfDiffusion \/ nonzero) => hasSurfaceDiffusion[t]
                /\ hasSurfaceDiffusion[t] =>
                      jacP[t * disc.nCol].upperBandwidth
                          = disc.nComp + 2 * disc.strideBound[t]

\* ------------------------------------------------------------------ C16
Ports == {0, 1}

\* C16: for every port the outlet index is nComp + (nCol - 1) * nComp for a
\* velocity >= 0 and nComp otherwise, the inlet index is 0 and both strides
\* are 1, so that component comp of the outlet is the bulk DOF of comp in the
\* last (for backward flow: first) axial cell and component comp of the inlet
\* is inlet DOF comp
InvC16_OutletAddressesBoundaryCell ==
    pc = "configured" =>
        \A port \in Ports :
            LET outletCell == IF conv.curVelocity >= 0 THEN disc.nCol - 1 ELSE 0
            IN  /\ localOutletComponentIndex(disc, conv, port)
                      = IF conv.curVelocity >= 0 THEN disc.nComp + (disc.nCol - 1) * disc.nComp
                        ELSE disc.nComp
                /\ localInletComponentIndex(disc, conv, port) = 0
                /\ localOutletComponentStride(disc, conv, port) = 1
                /\ localInletComponentStride(disc, conv, port) = 1
                /\ \A comp \in 0..(disc.nComp - 1) :
                      /\ localOutletComponentIndex(disc, conv, port)
                            + comp * localOutletComponentStride(disc, conv, port)
                           = offsetC(disc) + outletCell * strideColCell(disc)
                                + comp * strideColComp(disc)
                      /\ localInletComponentIndex(disc, conv, port)
                            + comp * localInletComponentStride(disc, conv, port) = comp

\* Backward flow through a column of several axial cells
WitC16_BackwardFlowSeveralCells ==
    /\ pc = "configured"
    /\ conv.curVelocity < 0
    /\ disc.nCol > 1
    /\ localOutletComponentIndex(disc, conv, 0) = disc.nComp

\* ------------------------------------------------------------------ C17
MultipliedNow == lastOp.op = "multiplyWithDerivativeJacobian"

\* The particle shells as (type, axial cell, shell) with their DOFs
Shells ==
    {x \in (0..(disc.nParType - 1)) \X (0..(disc.nCol - 1)) \X (0..(MaxParCell - 1)) :
        x[3] < disc.nParCell[x[1]]}

ShellDofs(x) ==
    LET first == offsetCp(disc, x[1], x[2]) + x[3] * strideParShell(disc, x[1])
    IN  first..(first + strideParShell(disc, x[1]) - 1)

BlockDofs(t, k) == offsetCp(disc, t, k)..(offsetCp(disc, t, k) + strideParBlock(disc, t) - 1)

\* C17: multiplyWithDerivativeJacobian leaves 0 in every flux DOF and every
\* inlet DOF of the result whatever the vector multiplied, every DOF of a
\* particle shell is written, and written from entries of the same shell
\* only, by the task of its particle block and no other
InvC17_DerivativeJacobianLocal ==
    MultipliedNow =>
        /\ \A i \in InletRange(disc) \cup FluxRange(disc) : lastOp.ret[i] = RatInt(0)
        /\ \A x \in Shells : \A i \in ShellDofs(x) :
              /\ \E w \in lastOp.writes : w.row = i
              /\ \A w \in lastOp.writes :
                    w.row = i => /\ w.task = 1 + x[1] * disc.nCol + x[2]
                                 /\ \A c \in w.cols : c.col \in ShellDofs(x)
        /\ \A w \in lastOp.writes :
              w.task >= 1 => w.row \in BlockDofs((w.task - 1) \div disc.nCol,
                                                 (w.task - 1) % disc.nCol)

\* A vector with nonzero flux and inlet entries has been multiplied for a
\* unit with several particles of several shells and bound states
WitC17_MultipliedSeveralBlocks ==
    /\ MultipliedNow
    /\ disc.nCol > 1 /\ disc.nParType > 1
    /\ \E t \in 0..(disc.nParType - 1) : disc.nParCell[t] > 1 /\ disc.strideBound[t] > 1
    /\ \A i \in InletRange(disc) \cup FluxRange(disc) : lastOp.sDot[i] # RatInt(0)
    /\ \E i \in ParticleRange(disc) : lastOp.ret[i] \notin {RatInt(0), lastOp.sDot[i]}

\* ------------------------------------------------------------------ C18
Initializing == sys.pc # "idle"

CallsOf(i) == {k \in DOMAIN sys.calls : sys.calls[k].unit = i}

\* What the units connected to the inlet of unit i deliver at their outlets
FedInlet(i) ==
    [k \in 1..unitNumInletDofs(sys, i) |->
        sumValues({[unit |-> u,
                    val |-> sys.y[dofOffset(sys, u) + unitOutletIndex(sys, u, (k - 1) % sys.nComp)]] :
                      u \in {v \in Models(sys) : <<v, i>> \in sys.conn}})]

StateRoutine == IF sys.lean THEN "leanConsistentInitialState" ELSE "consistentInitialState"

\* C18: in the consistent initialization, full or lean, the consistent-state
\* routine of every unit is called exactly once; the units without inlet come
\* first, then the coupling DOFs are zeroed and solved, then the units with
\* inlet, each of which sees its inlet DOF already set from the coupling.
InvC18_StateRoutinesOrdered ==
    Initializing =>
        /\ \A i \in Models(sys) : Cardinality(CallsOf(i)) <= 1
        /\ sys.pc = "stateWithInlet" =>
               \A i \in Models(sys) : ~sys.hasInlet[i] => Cardinality(CallsOf(i)) = 1
        /\ sys.pc \in {"timeDerivative", "done"} =>
               \A i \in Models(sys) : Cardinality(CallsOf(i)) = 1
        /\ \A k \in DOMAIN sys.calls :
               LET c == sys.calls[k]
               IN /\ c.routine = StateRoutine
                  /\ ~sys.hasInlet[c.unit] => ~c.coupled
                  /\ sys.hasInlet[c.unit] => c.coupled /\ c.inlet = FedInlet(c.unit)
        /\ \A k, l \in DOMAIN sys.calls :
               k < l /\ sys.hasInlet[sys.calls[k].unit] => sys.hasInlet[sys.calls[l].unit]

\* A finished initialization of a system in which a unit with a connected
\* inlet stands before a unit without inlet
WitC18_InletUnitListedFirst ==
    /\ sys.pc = "done"
    /\ \E i, j \in Models(sys) :
           /\ i < j
           /\ sys.hasInlet[i]
           /\ ~sys.hasInlet[j]
           /\ \E u \in Models(sys) : <<u, i>> \in sys.conn

\* ------------------------------------------------------------------ C19
\* C19: a non-zero status returned by the residual evaluation of phase 2
\* reaches the caller of consistentInitialConditions and of
\* leanConsistentInitialConditions.
InvC19_ResidualStatusSurfaced ==
    sys.pc = "done" /\ sys.status # 0 => sys.returned = <<sys.status>>

\* ------------------------------------------------------------------ C20
AlgebraicRows ==
    {j \in DOMAIN sys.yDot :
        \/ j >= finalOffset(sys)
        \/ \E e \in InletDofs(sys) : j = inletDofIndex(sys, e)}

\* C20: after consistent initialization the time derivative on every algebraic
\* row, that is on the coupling DOFs of the system and on the inlet DOFs of
\* every unit, is 0.
InvC20_AlgebraicRowsAtRest ==
    sys.pc = "done" => \A j \in AlgebraicRows : sys.yDot[j] = 0

\* ------------------------------------------------------------------ C28
CoupledNow == sys.pc = "coupled"

\* e comes before f in unit order, then port order, then component order
InletBefore(e, f) ==
    \/ e.unit < f.unit
    \/ e.unit = f.unit /\ e.port < f.port
    \/ e.unit = f.unit /\ e.port = f.port /\ e.comp < f.comp

InletRank(e) == Cardinality({f \in InletDofs(sys) : InletBefore(f, e)})

\* Row r of the products N_f,i * vec_i, summed over the units i
ConnectionProduct(r) ==
    sumValues({[unit |-> x.unit, col |-> x.entry.col,
                val |-> x.entry.val * sys.before[dofOffset(sys, x.unit) + x.entry.col]] :
                  x \in {y \in UNION {{[unit |-> i, entry |-> e] : e \in jacFN(sys, i)} :
                                          i \in Models(sys)} : y.entry.row = r}})

\* C28: after solveCouplingDOF(vec) every coupling DOF is its previous value
\* minus the sum over the units of N_f,i * vec_i; every inlet DOF equals one
\* coupling DOF, the coupling DOFs being taken consecutively in unit order,
\* then port order, then component order, each once and none past the end
\* of the vector; all other DOFs keep their values.
InvC28_CouplingSolved ==
    CoupledNow =>
        LET fo == finalOffset(sys)
        IN /\ DOMAIN sys.after = DOMAIN sys.before
           /\ \A j \in DOMAIN sys.after :
                  j >= fo => sys.after[j] = sys.before[j] - ConnectionProduct(j - fo)
           /\ \A e \in InletDofs(sys) :
                  /\ fo + InletRank(e) \in DOMAIN sys.after
                  /\ sys.after[inletDofIndex(sys, e)] = sys.after[fo + InletRank(e)]
           /\ {fo + InletRank(e) : e \in InletDofs(sys)} = {j \in DOMAIN sys.after : j >= fo}
           /\ \A j \in DOMAIN sys.after :
                  j < fo /\ (\A e \in InletDofs(sys) : j # inletDofIndex(sys, e))
                      => sys.after[j] = sys.before[j]

\* Two connected units with several inlet ports and components next to a
\* unit without inlet, solved for nonzero right-hand sides
WitC28_SeveralPortsAndComponents ==
    /\ CoupledNow
    /\ sys.nPorts > 1
    /\ sys.nComp > 1
    /\ Cardinality({i \in Models(sys) : sys.hasInlet[i]}) > 1
    /\ \E i \in Models(sys) : ~sys.hasInlet[i]
    /\ sys.conn # {}
    /\ \A j \in DOMAIN sys.before : j >= finalOffset(sys) => sys.before[j] # 0

\* ------------------------------------------------------------------ C27
\* The step of phase 2
ResidualStep == sys.pc = "stateWithInlet" /\ sys'.pc = "timeDerivative"

Residuals == {systemResidual(sys, r) : r \in {0, 1}}

\* The part of vec that belongs to unit i
UnitSlice(vec, i) == [k \in 1..unitNumDofs(sys, i) |-> vec[dofOffset(sys, i) + k - 1]]

DerivativeCallsFollowVariant ==
    sys.pc \in {"timeDerivative", "done"} =>
        /\ Len(sys.derivCalls) = IF sys.pc = "done" THEN sys.nModels ELSE sys.i
        /\ \A k \in DOMAIN sys.derivCalls :
               LET c == sys.derivCalls[k]
               IN /\ c.unit = k - 1
                  /\ IF sys.lean
                     THEN /\ c.routine = "leanConsistentInitialTimeDerivative"
                          /\ c.res = UnitSlice(sys.tempState, c.unit)
                     ELSE /\ c.routine = "consistentInitialTimeDerivative"
                          /\ c.res = <<>>

\* C27: in the lean variant phase 2 writes the residual to the temporary
\* buffer and leaves vecStateYdot as it is, and phase 3 hands every unit's
\* lean time-derivative routine that buffer at the unit's offset; in the full
\* variant phase 2 stores the residual in vecStateYdot itself.
PropC27_LeanResidualInTempState ==
    /\ [][ResidualStep =>
              IF sys.lean
              THEN sys'.yDot = sys.yDot /\ sys'.tempState \in Residuals
              ELSE sys'.yDot \in Residuals /\ sys'.tempState = sys.tempState]_vars
    /\ []DerivativeCallsFollowVariant

\* A finished lean initialization of several units with a nonzero residual
WitC27_LeanSeveralUnits ==
    /\ sys.pc = "done"
    /\ sys.lean
    /\ sys.nModels > 1
    /\ \E i \in Models(sys) : sys.hasInlet[i]
    /\ \A j \in DOMAIN sys.tempState : sys.tempState[j] # 0

\* ------------------------------------------------------------------ C21
SensitivityRunning == sys.pc = "sensitivity"

SensitivityFinished == SensitivityRunning /\ sys.i2 = sys.nModels /\ sys.p2 = sys.nSens

UnitEvents(i) ==
    {k \in DOMAIN sys.log :
        /\ sys.log[k].ev \in {"consistentInitialSensitivity", "leanConsistentInitialSensitivity"}
        /\ sys.log[k].arg = i}

SolveEvents(param) ==
    {k \in DOMAIN sys.log : sys.log[k].ev = "solveCouplingDOF" /\ sys.log[k].arg = param}

AllSolveEvents == UNION {SolveEvents(param) : param \in SensParams(sys)}

\* Row r of the products N_f,i * s_i for the sensitivity direction param
SensConnectionProduct(param, r) ==
    sumValues({[unit |-> x.unit, col |-> x.entry.col,
                val |-> x.entry.val * sys.sensY[param][dofOffset(sys, x.unit) + x.entry.col]] :
                  x \in {y \in UNION {{[unit |-> i, entry |-> e] : e \in jacFN(sys, i)} :
                                          i \in Models(sys)} : y.entry.row = r}})

\* C21: the sensitivity initialization first evaluates dResDpFwdWithJacobian
\* with an AD direction offset equal to the number of sensitivity parameters;
\* then, for every direction, the coupling rows of the sensitivity state get
\* the negated AD direction of the residual and solveCouplingDOF is applied,
\* after all units without inlet and before any unit with inlet; every unit
\* is processed exactly once.
InvC21_SensitivityCouplingOrdered ==
    SensitivityRunning =>
        /\ sys.log[1] = [ev |-> "dResDpFwdWithJacobian", arg |-> sys.nSens, seen |-> <<>>]
        /\ \A k \in DOMAIN sys.log : k > 1 => sys.log[k].ev # "dResDpFwdWithJacobian"
        /\ \A i \in Models(sys) : Cardinality(UnitEvents(i)) <= 1
        /\ SensitivityFinished => \A i \in Models(sys) : Cardinality(UnitEvents(i)) = 1
        /\ \A param \in SensParams(sys) :
               Cardinality(SolveEvents(param)) = IF param < sys.p1 THEN 1 ELSE 0
        /\ AllSolveEvents # {} =>
               \A i \in Models(sys) : ~sys.hasInlet[i] =>
                   \E k \in UnitEvents(i) : \A l \in AllSolveEvents : k < l
        /\ \A i \in Models(sys) : sys.hasInlet[i] =>
               \A k \in UnitEvents(i) :
                   /\ \A param \in SensParams(sys) : \E l \in SolveEvents(param) : l < k
                   /\ \A param \in SensParams(sys) :
                          \A d \in 1..unitNumInletDofs(sys, i) :
                              sys.log[k].seen[param][d]
                                  = sys.sensY[param][finalOffset(sys) + couplingOffset(sys, i) + d - 1]
        /\ \A param \in SensParams(sys) : param < sys.p1 =>
               \A j \in DOMAIN sys.sensY[param] : j >= finalOffset(sys) =>
                   sys.sensY[param][j]
                       = (0 - sys.adRes[param][j])
                         - SensConnectionProduct(param, j - finalOffset(sys))

\* A finished sensitivity initialization with several directions and a
\* nonzero AD residual, in which a connected unit with inlet is listed before
\* a unit without inlet
WitC21_SeveralDirections ==
    /\ SensitivityFinished
    /\ sys.nSens > 1
    /\ \E i, j \in Models(sys) :
           /\ i < j
           /\ sys.hasInlet[i]
           /\ ~sys.hasInlet[j]
           /\ \E u \in Models(sys) : <<u, i>> \in sys.conn
    /\ \A j \in DOMAIN sys.adRes[0] : j >= finalOffset(sys) => sys.adRes[0][j] # 0

\* ------------------------------------------------------------------ C29
ApplyStep == sys.pc = "read" /\ sys'.pc = "applied"

FirstEntries(values) == [j \in 0..(systemNumDofs(sys) - 1) |-> values[j + 1]]

\* C29: applyInitialCondition with an INIT_STATE_Y of at least numDofs()
\* entries sets the state to its first numDofs() entries and calls no unit;
\* the time derivative is overwritten only if INIT_STATE_YDOT has at least
\* numDofs() entries too.  With an absent or shorter INIT_STATE_Y every unit
\* applies its own initial condition once at its offset and INIT_STATE_YDOT
\* is ignored.
PropC29_FullStateOrUnits ==
    [][ApplyStep =>
          IF Len(sys.initState) >= systemNumDofs(sys)
          THEN /\ sys'.y = FirstEntries(sys.initState)
               /\ sys'.applied = <<>>
               /\ sys'.yDot = IF Len(sys.initStateDot) >= systemNumDofs(sys)
                              THEN FirstEntries(sys.initStateDot) ELSE sys.yDot
          ELSE /\ Len(sys'.applied) = sys.nModels
               /\ \A i \in Models(sys) :
                      /\ sys'.applied[i + 1] = [unit |-> i, offset |-> dofOffset(sys, i)]
                      /\ \A j \in dofOffset(sys, i)..(dofOffset(sys, i + 1) - 1) :
                             sys'.y[j] = UnitInitialValue + (j - dofOffset(sys, i))
               /\ \A j \in DOMAIN sys.y : j >= finalOffset(sys) => sys'.y[j] = sys.y[j]
               /\ sys'.yDot = sys.yDot]_vars

\* Applied with a full INIT_STATE_Y and a shorter INIT_STATE_YDOT
WitC29_FullStateShortDerivative ==
    /\ sys.pc = "applied"
    /\ Len(sys.initState) > systemNumDofs(sys)
    /\ Len(sys.initStateDot) = systemNumDofs(sys) - 1
    /\ Len(sys.initStateDot) > 0
    /\ sys.nModels > 1

\* ------------------------------------------------------------------ C30
DiscretizationRead == lastOp.op = "configureModelDiscretization"

\* The number of particle types the fields ask for
TypesAskedFor ==
    IF provider.hasNPARTYPE THEN provider.NPARTYPE
    ELSE IF Len(provider.NBOUND) \div provider.NCOMP >= Len(provider.NPAR)
         THEN Len(provider.NBOUND) \div provider.NCOMP
         ELSE Len(provider.NPAR)

SizesRejected ==
    \/ Len(provider.NPAR) > 1 /\ Len(provider.NPAR) < TypesAskedFor
    \/ Len(provider.NBOUND) < provider.NCOMP
    \/ /\ Len(provider.NBOUND) > provider.NCOMP
       /\ Len(provider.NBOUND) < provider.NCOMP * TypesAskedFor

\* C30: without NPARTYPE the number of particle types is
\* max(|NBOUND| / nComp, |NPAR|); every type t then has NPAR[t] shells if
\* NPAR has at least nParType entries and NPAR[0] otherwise, and
\* NBOUND[t * nComp + c] bound states of component c if NBOUND has at least
\* nComp * nParType entries and NBOUND[c] otherwise; an NPAR with more than 1
\* but fewer than nParType entries, and an NBOUND with fewer than nComp or
\* with more than nComp but fewer than nComp * nParType entries, raise an
\* InvalidParameterException.
InvC30_TypesInferredAndMultiplexed ==
    DiscretizationRead =>
        /\ SizesRejected => pc = "failed" /\ lastOp.error # "none"
        /\ pc = "discretized" =>
               /\ disc.nParType = TypesAskedFor
               /\ \A t \in 0..(disc.nParType - 1) :
                      /\ disc.nParCell[t] = IF Len(provider.NPAR) >= disc.nParType
                                            THEN provider.NPAR[t + 1] ELSE provider.NPAR[1]
                      /\ \A c \in 0..(disc.nComp - 1) :
                             disc.nBound[t * disc.nComp + c]
                                 = IF Len(provider.NBOUND) >= disc.nComp * disc.nParType
                                   THEN provider.NBOUND[t * disc.nComp + c + 1]
                                   ELSE provider.NBOUND[c + 1]

\* Types inferred from NBOUND, with a single NPAR entry multiplexed
WitC30_TypesInferredFromNbound ==
    /\ DiscretizationRead
    /\ pc = "discretized"
    /\ ~provider.hasNPARTYPE
    /\ Len(provider.NPAR) = 1
    /\ provider.NCOMP > 1
    /\ disc.nParType > 1

\* ------------------------------------------------------------------ C22
Returned(op) == lastOp.op = op /\ lastOp.error = "none"

ParTypes == 0..(disc.nParType - 1)

\* The outcomes of the sub-configurations configureModelDiscretization runs
DiscretizationOutcomes ==
    LET g == provider.plugins
    IN  {[sub |-> "transport", type |-> 0, ok |-> g.transportDiscOk]}
          \cup {[sub |-> "binding", type |-> t, ok |-> t \notin g.bindingDiscFails] :
                  t \in IF singleBindingOf(provider) THEN {0} ELSE ParTypes}
          \cup {[sub |-> "bulk", type |-> 0, ok |-> g.bulkDiscOk] : x \in {1} \cap
                  (IF g.hasReactionBulk THEN {1} ELSE {})}
          \cup {[sub |-> "reaction", type |-> t, ok |-> t \notin g.reactionDiscFails] :
                  t \in IF ~g.hasReactionParticles THEN {}
                        ELSE IF singleDynReactionOf(provider) THEN {0} ELSE ParTypes}

\* The outcomes of the sub-configurations configure runs
ConfigureOutcomes ==
    LET g == provider.plugins
        h == lastOp.pin.plugins
    IN  {[sub |-> "transport", type |-> 0, ok |-> h.transportConfOk]}
          \cup {[sub |-> "binding", type |-> t, ok |-> t \notin h.bindingConfFails] :
                  t \in (IF singleBindingOf(provider) THEN {0} ELSE ParTypes) \ g.bindingNoConf}
          \cup {[sub |-> "bulk", type |-> 0, ok |-> h.bulkConfOk] : x \in {1} \cap
                  (IF g.hasReactionBulk /\ ~g.bulkNoConf THEN {1} ELSE {})}
          \cup {[sub |-> "reaction", type |-> t, ok |-> t \notin h.reactionConfFails] :
                  t \in (IF ~g.hasReactionParticles THEN {}
                         ELSE IF singleDynReactionOf(provider) THEN {0} ELSE ParTypes)
                            \ g.reactionNoConf}

\* C22: configureModelDiscretization and configure return true exactly if
\* every sub-configuration they ran (transport operator, binding models,
\* bulk reaction model, particle reaction models) returned true; an earlier
\* failure is not masked by a later success, for single and per-type
\* plug-ins alike.
InvC22_ReturnsConjunction ==
    /\ Returned("configureModelDiscretization") =>
           (lastOp.result <=> \A x \in DiscretizationOutcomes : x.ok)
    /\ Returned("configure") =>
           (lastOp.result <=> \A x \in ConfigureOutcomes : x.ok)

\* configure returned false although only the binding model of the first of
\* several particle types failed
WitC22_EarlyBindingFailureKept ==
    /\ Returned("configure")
    /\ ~lastOp.result
    /\ disc.nParType > 1
    /\ ~singleBindingOf(provider)
    /\ provider.plugins.bindingNoConf = {}
    /\ provider.plugins.hasReactionParticles
    /\ {x \in ConfigureOutcomes : ~x.ok} = {[sub |-> "binding", type |-> 0, ok |-> FALSE]}

\* ------------------------------------------------------------------ C24
\* The surface diffusion coefficient of bound state bnd of type t in the
\* section of the last evaluation, the coefficients being ordered by type
SurfaceDiffusionOf(t, bnd) ==
    LET perSection == SumOver(Types(disc), [u \in Types(disc) |-> disc.strideBound[u]])
        before == SumOver(0..(t - 1), [u \in Types(disc) |-> disc.strideBound[u]])
        section == IF Cardinality(DOMAIN par.parSurfDiffusion) > perSection
                   THEN lastOp.secIdx * perSection ELSE 0
    IN  par.parSurfDiffusion[section + before + bnd]

\* The coefficient of the state idx rows away in the radial diffusion flux
\* with coefficient ds through the surfaces of shell `shell` of type t
RadialFluxCoefficient(t, shell, ds, idx) ==
    LET faces == shellSurfaces(disc, par, t, shell)
        through(f) == RatDiv(RatMul(f.area, ds), f.dr)
    IN  IF idx = 0
        THEN RatSum({[val |-> through(f), f |-> f] : f \in faces})
        ELSE RatSum({[val |-> RatNeg(through(f)), f |-> f] : f \in {g \in faces : g.far = idx}})

TasksRunning == run.pc = "tasks"

CallReturned ==
    /\ lastOp.op \in {"residual", "multiplyWithJacobian"}
    /\ lastOp.pc = "returned"

\* The call in progress or, after its return, the call that ran last
TheCall == IF TasksRunning THEN run ELSE lastOp

\* What task p has written so far: entries of the vector, Jacobian blocks
VectorWrites(p) == {w.at : w \in {x \in TheCall.writes : x.task = p /\ x.kind = "vector"}}

BlockWrites(p) == {w.at : w \in {x \in TheCall.writes : x.task = p /\ x.kind = "jacP"}}

AllTasks == 0..(disc.nCol * disc.nParType)

\* C23: in a residual evaluation and in a Jacobian product, task 0 writes
\* the bulk block and task p >= 1 the particle block of type (p-1)/nCol and
\* axial cell (p-1)%nCol and the Jacobian block nCol*type + cell, so that the
\* nCol*nParType + 1 tasks and the blocks correspond one to one; no entry of
\* the vector and no Jacobian block is written by two tasks, whatever the
\* order in which threads take and end the tasks; and the serial pass over
\* the flux rows has written nothing before every task has ended
InvC23_TasksDisjointThenFlux ==
    (TasksRunning \/ CallReturned) =>
        /\ \A p \in AllTasks :
              LET type == (p - 1) \div disc.nCol
                  cell == (p - 1) % disc.nCol
              IN  /\ VectorWrites(p) \in {{}, IF p = 0 THEN BulkRange(disc)
                                                ELSE BlockDofs(type, cell)}
                  /\ BlockWrites(p) \subseteq {disc.nCol * type + cell}
                  /\ p = 0 => BlockWrites(p) = {}
                  /\ (~TasksRunning \/ p \notin run.pending \cup run.running) =>
                         VectorWrites(p) # {}
                  /\ (TheCall.wantJac /\ p > 0 /\ (~TasksRunning \/ p \notin run.pending)) =>
                         BlockWrites(p) # {}
        /\ \A w1, w2 \in {w \in TheCall.writes : w.task >= 0} :
              (w1.kind = w2.kind /\ w1.at = w2.at) => w1.task = w2.task
        /\ \A t \in Types(disc), k \in 0..(disc.nCol - 1) :
              Cardinality({p \in AllTasks : p > 0 /\ (p - 1) \div disc.nCol = t
                                              /\ (p - 1) % disc.nCol = k}) = 1
        /\ (\E w \in TheCall.writes : w.task < 0 /\ w.at \in FluxRange(disc)) =>
              /\ ~TasksRunning
              /\ \A p \in AllTasks : VectorWrites(p) # {}

\* Several axial cells and several particle types, two tasks of different
\* types running at once while another has ended and the Jacobian is wanted
WitC23_TasksOverlap ==
    /\ TasksRunning
    /\ run.wantJac
    /\ disc.nCol > 1
    /\ disc.nParType > 1
    /\ \E p1, p2 \in run.running :
          /\ p1 > 0 /\ p2 > 0
          /\ (p1 - 1) \div disc.nCol # (p2 - 1) \div disc.nCol
          /\ (p1 - 1) % disc.nCol # (p2 - 1) % disc.nCol
    /\ \E p \in AllTasks : p \notin run.pending \cup run.running

\* ------------------------------------------------------------------ C26
ResidualCalled == TheCall.op = "residual"

\* Jacobian block blk as the analytic pass fills it after setAll(0.0), and as
\* it is extracted from the AD residual
FilledBlock(blk) ==
    bandAfterWrites(jacP[blk], jacobianWrites(disc, par, hasSurfaceDiffusion, TheCall.secIdx,
                                              blk \div disc.nCol))

ExtractedBlock(blk) ==
    extractBandedJacobianFromAd(jacP[blk],
        residualTerms(disc, par, hasSurfaceDiffusion, TheCall.secIdx, blk \div disc.nCol))

\* C26: a call of residual with updateJacobian = false leaves every particle
\* Jacobian block and _factorizeJacobian as they were, at every step up to its
\* return.  With updateJacobian = true _factorizeJacobian is set from the
\* start of the call on, and at the return every particle Jacobian block has
\* been written anew: with the analytic Jacobian each block is zeroed when
\* its task starts and filled when the task ends, with AD no block changes
\* during the residual pass and all are extracted after it.
InvC26_JacobianUpdateFlagged ==
    ((TasksRunning \/ CallReturned) /\ ResidualCalled) =>
        LET c == TheCall
            blocks == DOMAIN jacP
        IN  /\ ~c.updateJacobian =>
                  /\ jacP = c.jacPBefore
                  /\ factorizeJacobian = c.factorizeBefore
                  /\ \A w \in c.writes : w.kind # "jacP"
            /\ c.updateJacobian => factorizeJacobian
            /\ (c.updateJacobian /\ c.analyticJac) =>
                  \A blk \in blocks :
                      jacP[blk] = IF TasksRunning /\ blk + 1 \in run.pending THEN c.jacPBefore[blk]
                                  ELSE IF TasksRunning /\ blk + 1 \in run.running
                                  THEN [jacP[blk] EXCEPT !.data = {}]
                                  ELSE FilledBlock(blk)
            /\ (c.updateJacobian /\ ~c.analyticJac) =>
                  IF TasksRunning THEN jacP = c.jacPBefore
                  ELSE \A blk \in blocks :
                          /\ jacP[blk] = ExtractedBlock(blk)
                          /\ [task |-> -1, kind |-> "jacP", at |-> blk] \in c.writes
            /\ (c.updateJacobian /\ CallReturned) =>
                  \A blk \in blocks : \E w \in c.writes : w.kind = "jacP" /\ w.at = blk

\* residual has returned from updating the Jacobian blocks of several axial
\* cells and particle types by AD, which were all zero before
WitC26_UpdatedByAd ==
    /\ CallReturned
    /\ ResidualCalled
    /\ lastOp.updateJacobian
    /\ ~lastOp.analyticJac
    /\ disc.nCol > 1
    /\ disc.nParType > 1
    /\ ~lastOp.factorizeBefore
    /\ \A blk \in DOMAIN jacP : lastOp.jacPBefore[blk].data = {} /\ jacP[blk].data # {}

\* ------------------------------------------------------------------ C25
\* The sum of the elements of the sparse matrix seq at (row, col)
SparseElement(seq, row, col) ==
    RatSum({[val |-> seq[n].val, n |-> n] :
               n \in {j \in DOMAIN seq : seq[j].row = row /\ seq[j].col = col}})

\* The particle block (type, axial cell) that DOF i belongs to
BlockOf(i) ==
    CHOOSE x \in Types(disc) \X (0..(disc.nCol - 1)) : i \in BlockDofs(x[1], x[2])

\* Element (i, j) of the Jacobian of the unit operation, put together from
\* its blocks
SystemJacobian(i, j) ==
    LET d == disc
        one == IF i = j THEN RatInt(1) ELSE RatInt(0)
    IN  IF i \in InletRange(d) THEN one
        ELSE IF i \in BulkRange(d)
        THEN IF j \in BulkRange(d) THEN bulkJacobian(d, i - offsetC(d), j - offsetC(d))
             ELSE IF j \in FluxRange(d)
             THEN SparseElement(offdiag.jacCF, i - offsetC(d), j - offsetJf(d))
             ELSE IF j \in InletRange(d) THEN SparseElement(jacInlet, i - offsetC(d), j)
             ELSE RatInt(0)
        ELSE IF i \in ParticleRange(d)
        THEN LET b == BlockOf(i)
                 blk == d.nCol * b[1] + b[2]
                 first == offsetCp(d, b[1], b[2])
             IN  IF j \in BlockDofs(b[1], b[2])
                 THEN bandElement(jacP[blk], i - first, j - i)
                 ELSE IF j \in FluxRange(d)
                 THEN SparseElement(offdiag.jacPF[blk], i - first, j - offsetJf(d))
                 ELSE RatInt(0)
        ELSE IF j \in BulkRange(d)
        THEN SparseElement(offdiag.jacFC, i - offsetJf(d), j - offsetC(d))
        ELSE IF j \in ParticleRange(d)
        THEN LET b == BlockOf(j)
             IN  SparseElement(offdiag.jacFP[d.nCol * b[1] + b[2]], i - offsetJf(d),
                               j - offsetCp(d, b[1], b[2]))
        ELSE one

ProductReturned == CallReturned /\ lastOp.op = "multiplyWithJacobian"

\* C25: when multiplyWithJacobian returns, every entry of the result is
\* alpha times the row of the Jacobian times x plus beta times the entry
\* the result vector held before, the Jacobian being the identity on the
\* inlet rows, J_c, J_cf and the inlet mapping on the bulk rows, J_p and
\* J_pf of the block on the particle rows, and J_fc, J_fp of every block and
\* the identity on the flux rows
InvC25_JacobianProduct ==
    ProductReturned =>
        \A i \in DOMAIN lastOp.ret :
            lastOp.ret[i] =
                RatAdd(RatMul(lastOp.alpha,
                              RatSum({[val |-> RatMul(SystemJacobian(i, j), lastOp.yS[j]),
                                       j |-> j] : j \in DOMAIN lastOp.yS})),
                       RatMul(lastOp.beta, lastOp.ret0[i]))

\* A product with alpha and beta other than 0 and 1 has returned for several
\* axial cells and particle types, with populated particle blocks and
\* assembled coupling blocks
WitC25_AllBlocksPopulated ==
    /\ ProductReturned
    /\ lastOp.alpha \notin {RatInt(0), RatInt(1)}
    /\ lastOp.beta \notin {RatInt(0), RatInt(1)}
    /\ disc.nCol > 1
    /\ disc.nParType > 1
    /\ \A blk \in DOMAIN jacP : jacP[blk].data # {}
    /\ \E i \in BulkRange(disc), j \in InletRange(disc) : SystemJacobian(i, j) # RatInt(0)
    /\ \A i \in FluxRange(disc) :
          /\ \E j \in BulkRange(disc) : SystemJacobian(i, j) # RatInt(0)
          /\ \E j \in ParticleRange(disc) : SystemJacobian(i, j) # RatInt(0)
    /\ \A i \in DOMAIN lastOp.ret : lastOp.ret[i] # lastOp.ret0[i]

====
